---- MODULE Spec2Model ----
(***************************************************************************)
(* dep-sync: the multi-project dependency-update engine (bumpDependency),  *)
(* and the batch controller (main) that sequences repository sync, package *)
(* updates, commits, version bumps and pushes.                             *)
(*                                                                         *)
(* Paths are sequences of path segments, so that path.resolve,             *)
(* path.basename, path.dirname and path.relative are computed on them.     *)
(* A manifest (package.json) is a record: whether the file exists, whether *)
(* it can be read and parsed, whether it can be written, and its parsed    *)
(* content (the dependency categories and the version field).              *)
(***************************************************************************)
EXTENDS FiniteSets, Integers, Sequences, TLC

VARIABLES
    disk,       \* the manifests on disk: manifest path -> Manifest
    paths,      \* options.paths: the targeted project directories, in order
    request,    \* the package update request: packageName, version, exact, noPeer
    runs,       \* the calls of bumpDependency made so far, in order
    opts,       \* baseOptions of main
    packages,   \* the package requests of main, in order
    repos,      \* the directories that are roots of a git working tree
    dirty,      \* the roots whose working tree has uncommitted changes
    branches,   \* the roots where the requested branch has been created
    pc,         \* where main is
    idx,        \* the index of the loop main is in
    cmds,       \* the external commands executed so far, in order
    allUpdatedFiles,
    branchCreated,
    hadErrors,
    seenRoots,
    versionResults,
    pushResults,
    anomalies   \* how many external commands have failed or deviated so far

engineVars == <<disk, paths, request, runs>>

mainVars == <<opts, packages, repos, dirty, branches, pc, idx, cmds, allUpdatedFiles,
              branchCreated, hadErrors, seenRoots, versionResults, pushResults, anomalies>>

vars == <<disk, paths, request, runs, opts, packages, repos, dirty, branches, pc, idx, cmds,
          allUpdatedFiles, branchCreated, hadErrors, seenRoots, versionResults, pushResults,
          anomalies>>

(***************************************************************************)
(* Bounds of the model.                                                    *)
(***************************************************************************)
MaxPaths == 2       \* longest list of project paths
MaxRuns == 2        \* most calls of bumpDependency in one behaviour of the engine alone
MaxPackages == 3    \* most package requests of one invocation of main
MaxAnomalies == 1   \* most external commands that fail or deviate in one invocation
MaxText == 3        \* longest user-supplied text given to the git layer on its own

(***************************************************************************)
(* Values.                                                                 *)
(***************************************************************************)
Absent == <<"undefined">>   \* the value of a key that an object does not have

DEP_TYPES == <<"dependencies", "devDependencies", "peerDependencies", "optionalDependencies">>

DepTypeSet == {DEP_TYPES[i] : i \in 1..Len(DEP_TYPES)}

React == <<"r", "e", "a", "c", "t">>

Lodash == <<"l", "o", "d", "a", "s", "h">>

PackageNames == {React, Lodash}

Range(s) == {s[i] : i \in 1..Len(s)}

(***************************************************************************)
(* Version arithmetic.  A version string is a sequence of characters.      *)
(***************************************************************************)
DigitChars == <<"0", "1", "2", "3", "4", "5", "6", "7", "8", "9">>

Digits == Range(DigitChars)

LowerCase ==
    {"a", "b", "c", "d", "e", "f", "g", "h", "i", "j", "k", "l", "m", "n", "o", "p", "q", "r",
     "s", "t", "u", "v", "w", "x", "y", "z"}

UpperCase ==
    {"A", "B", "C", "D", "E", "F", "G", "H", "I", "J", "K", "L", "M", "N", "O", "P", "Q", "R",
     "S", "T", "U", "V", "W", "X", "Y", "Z"}

Letters == LowerCase \cup UpperCase

DigitValue(c) == (CHOOSE k \in 1..10 : DigitChars[k] = c) - 1

\* parseInt(digits, 10)
RECURSIVE ParseInt(_)
ParseInt(ds) ==
    IF Len(ds) = 0
    THEN 0
    ELSE 10 * ParseInt(SubSeq(ds, 1, Len(ds) - 1)) + DigitValue(ds[Len(ds)])

\* `${n}` for a number n >= 0
RECURSIVE NumberToString(_)
NumberToString(n) ==
    IF n < 10
    THEN <<DigitChars[n + 1]>>
    ELSE Append(NumberToString(n \div 10), DigitChars[(n % 10) + 1])

\* the index of the last character of the longest run of characters of class cls
\* that starts at s[i]; i - 1 when s[i] is not of the class
RECURSIVE RunEnd(_, _, _)
RunEnd(s, i, cls) ==
    IF i <= Len(s) /\ s[i] \in cls THEN RunEnd(s, i + 1, cls) ELSE i - 1

NoPrerelease == <<>>        \* prerelease: undefined

NoNumber == -1              \* prereleaseNum: undefined

NullVersion ==
    [valid |-> FALSE, major |-> 0, minor |-> 0, patch |-> 0,
     prerelease |-> NoPrerelease, prereleaseNum |-> NoNumber]

\* the optional group (?:-([a-zA-Z]+)(?:[.-](\d+))?)?$ of the pattern of parseVersion,
\* after the patch number that ends at clean[e3]; e4 and e5 are the ends of the runs of
\* letters and of digits that follow
ParsePrerelease(clean, base, e3, e4, e5) ==
    LET n == Len(clean)
        tagged == e3 + 1 <= n /\ clean[e3 + 1] = "-" /\ e4 >= e3 + 2
        numbered == e4 + 1 <= n /\ clean[e4 + 1] \in {".", "-"} /\ e5 >= e4 + 2
    IN IF e3 = n THEN base
       ELSE IF ~tagged THEN NullVersion
       ELSE IF e4 = n THEN [base EXCEPT !.prerelease = SubSeq(clean, e3 + 2, e4)]
       ELSE IF numbered /\ e5 = n
       THEN [base EXCEPT !.prerelease = SubSeq(clean, e3 + 2, e4),
                         !.prereleaseNum = ParseInt(SubSeq(clean, e4 + 2, e5))]
       ELSE NullVersion

\* the groups (\d+)\.(\d+)\.(\d+) of the pattern of parseVersion; e1, e2 and e3 are the
\* ends of the three runs of digits
ParseTriple(clean, e1, e2, e3) ==
    LET n == Len(clean)
        triple == /\ e1 >= 1
                  /\ e1 + 1 <= n /\ clean[e1 + 1] = "."
                  /\ e2 >= e1 + 2
                  /\ e2 + 1 <= n /\ clean[e2 + 1] = "."
                  /\ e3 >= e2 + 2
        base == [valid |-> TRUE,
                 major |-> ParseInt(SubSeq(clean, 1, e1)),
                 minor |-> ParseInt(SubSeq(clean, e1 + 2, e2)),
                 patch |-> ParseInt(SubSeq(clean, e2 + 2, e3)),
                 prerelease |-> NoPrerelease, prereleaseNum |-> NoNumber]
    IN IF ~triple THEN NullVersion
       ELSE ParsePrerelease(clean, base, e3, RunEnd(clean, e3 + 2, Letters),
                            RunEnd(clean, RunEnd(clean, e3 + 2, Letters) + 2, Digits))

\* the match of /^(\d+)\.(\d+)\.(\d+)(?:-([a-zA-Z]+)(?:[.-](\d+))?)?$/ on clean
MatchVersion(clean) ==
    ParseTriple(clean, RunEnd(clean, 1, Digits),
                RunEnd(clean, RunEnd(clean, 1, Digits) + 2, Digits),
                RunEnd(clean, RunEnd(clean, RunEnd(clean, 1, Digits) + 2, Digits) + 2, Digits))

\* parseVersion(version): version.replace(/^[v^~]/, "") matched against the pattern
ParseVersion(version) ==
    MatchVersion(IF Len(version) > 0 /\ version[1] \in {"v", "^", "~"}
                 THEN Tail(version) ELSE version)

Triple(major, minor, patch) ==
    NumberToString(major) \o <<".">> \o NumberToString(minor) \o <<".">> \o NumberToString(patch)

NullString == <<>>          \* null, where a string is expected

\* NextOf with a patch bump that increments the patch number of a prerelease too
NextOfKeepsCounting(parsed, type, prereleaseTag) ==
    IF ~parsed.valid THEN NullString
    ELSE CASE type = "major" -> Triple(parsed.major + 1, 0, 0)
           [] type = "minor" -> Triple(parsed.major, parsed.minor + 1, 0)
           [] type = "patch" -> Triple(parsed.major, parsed.minor, parsed.patch + 1)
           [] type = "prerelease" ->
                 IF parsed.prerelease = prereleaseTag /\ parsed.prereleaseNum # NoNumber
                 THEN Triple(parsed.major, parsed.minor, parsed.patch) \o <<"-">>
                         \o prereleaseTag \o <<".">> \o NumberToString(parsed.prereleaseNum + 1)
                 ELSE Triple(parsed.major, parsed.minor, parsed.patch + 1) \o <<"-">>
                         \o prereleaseTag \o <<".", "0">>
           [] OTHER -> NullString

\* the switch of suggestNextVersion on the parsed version
NextOf(parsed, type, prereleaseTag) ==
    IF ~parsed.valid THEN NullString
    ELSE CASE type = "major" -> Triple(parsed.major + 1, 0, 0)
           [] type = "minor" -> Triple(parsed.major, parsed.minor + 1, 0)
           [] type = "patch" ->
                 IF parsed.prerelease # NoPrerelease
                 THEN Triple(parsed.major, parsed.minor, parsed.patch)
                 ELSE Triple(parsed.major, parsed.minor, parsed.patch + 1)
           [] type = "prerelease" ->
                 IF parsed.prerelease = prereleaseTag /\ parsed.prereleaseNum # NoNumber
                 THEN Triple(parsed.major, parsed.minor, parsed.patch) \o <<"-">>
                         \o prereleaseTag \o <<".">> \o NumberToString(parsed.prereleaseNum + 1)
                 ELSE Triple(parsed.major, parsed.minor, parsed.patch + 1) \o <<"-">>
                         \o prereleaseTag \o <<".", "0">>
           [] OTHER -> NullString

\* suggestNextVersion(currentVersion, type, prereleaseTag)
SuggestNextVersion(currentVersion, type, prereleaseTag) ==
    NextOf(ParseVersion(currentVersion), type, prereleaseTag)

\* FormatVersion without the number of the prerelease
FormatVersionWithoutNumber(parsed) ==
    Triple(parsed.major, parsed.minor, parsed.patch)
        \o (IF parsed.prerelease = NoPrerelease THEN <<>> ELSE <<"-">> \o parsed.prerelease)

\* formatVersion(parsed)
FormatVersion(parsed) ==
    Triple(parsed.major, parsed.minor, parsed.patch)
        \o (IF parsed.prerelease = NoPrerelease THEN <<>>
            ELSE <<"-">> \o parsed.prerelease
                 \o (IF parsed.prereleaseNum = NoNumber THEN <<>>
                     ELSE <<".">> \o NumberToString(parsed.prereleaseNum)))

\* the letters in the order of their character codes
LetterChars ==
    <<"A", "B", "C", "D", "E", "F", "G", "H", "I", "J", "K", "L", "M", "N", "O", "P", "Q", "R",
      "S", "T", "U", "V", "W", "X", "Y", "Z",
      "a", "b", "c", "d", "e", "f", "g", "h", "i", "j", "k", "l", "m", "n", "o", "p", "q", "r",
      "s", "t", "u", "v", "w", "x", "y", "z">>

LetterCode(c) == CHOOSE k \in 1..Len(LetterChars) : LetterChars[k] = c

\* s < t on two strings of letters
RECURSIVE StringLess(_, _)
StringLess(s, t) ==
    IF Len(t) = 0 THEN FALSE
    ELSE IF Len(s) = 0 THEN TRUE
    ELSE IF s[1] # t[1] THEN LetterCode(s[1]) < LetterCode(t[1])
    ELSE StringLess(Tail(s), Tail(t))

\* prereleaseNum || 0
OrZero(prereleaseNum) == IF prereleaseNum = NoNumber THEN 0 ELSE prereleaseNum

\* CompareParsed that stops after the major number
CompareParsedByMajor(pa, pb) ==
    IF ~pa.valid \/ ~pb.valid THEN 0
    ELSE IF pa.major # pb.major THEN (IF pa.major < pb.major THEN -1 ELSE 1)
    ELSE 0

\* the body of compareVersions on the two parsed versions
CompareParsed(pa, pb) ==
    IF ~pa.valid \/ ~pb.valid THEN 0
    ELSE IF pa.major # pb.major THEN (IF pa.major < pb.major THEN -1 ELSE 1)
    ELSE IF pa.minor # pb.minor THEN (IF pa.minor < pb.minor THEN -1 ELSE 1)
    ELSE IF pa.patch # pb.patch THEN (IF pa.patch < pb.patch THEN -1 ELSE 1)
    ELSE IF pa.prerelease # NoPrerelease /\ pb.prerelease = NoPrerelease THEN -1
    ELSE IF pa.prerelease = NoPrerelease /\ pb.prerelease # NoPrerelease THEN 1
    ELSE IF pa.prerelease # NoPrerelease /\ pb.prerelease # NoPrerelease
    THEN IF pa.prerelease # pb.prerelease
         THEN (IF StringLess(pa.prerelease, pb.prerelease) THEN -1 ELSE 1)
         ELSE IF pa.prereleaseNum # pb.prereleaseNum
         THEN (IF OrZero(pa.prereleaseNum) < OrZero(pb.prereleaseNum) THEN -1 ELSE 1)
         ELSE 0
    ELSE 0

\* compareVersions(a, b): -1, 0 or 1
CompareVersions(a, b) == CompareParsed(ParseVersion(a), ParseVersion(b))

\* ChangeTypeOf that looks at the numbers before it looks at the prerelease of the new version
ChangeTypeByNumbersFirst(oldParsed, newParsed) ==
    IF ~oldParsed.valid \/ ~newParsed.valid THEN "unknown"
    ELSE IF newParsed.major > oldParsed.major THEN "major"
    ELSE IF newParsed.major = oldParsed.major /\ newParsed.minor > oldParsed.minor THEN "minor"
    ELSE IF /\ newParsed.major = oldParsed.major
            /\ newParsed.minor = oldParsed.minor
            /\ newParsed.patch > oldParsed.patch THEN "patch"
    ELSE IF newParsed.prerelease # NoPrerelease THEN "prerelease"
    ELSE IF oldParsed.prerelease # NoPrerelease /\ newParsed.prerelease = NoPrerelease THEN "patch"
    ELSE "unknown"

\* the body of getVersionChangeType on the two parsed versions
ChangeTypeOf(oldParsed, newParsed) ==
    IF ~oldParsed.valid \/ ~newParsed.valid THEN "unknown"
    ELSE IF newParsed.prerelease # NoPrerelease THEN "prerelease"
    ELSE IF newParsed.major > oldParsed.major THEN "major"
    ELSE IF newParsed.major = oldParsed.major /\ newParsed.minor > oldParsed.minor THEN "minor"
    ELSE IF /\ newParsed.major = oldParsed.major
            /\ newParsed.minor = oldParsed.minor
            /\ newParsed.patch > oldParsed.patch THEN "patch"
    ELSE IF oldParsed.prerelease # NoPrerelease /\ newParsed.prerelease = NoPrerelease THEN "patch"
    ELSE "unknown"

\* getVersionChangeType(oldVersion, newVersion)
GetVersionChangeType(oldVersion, newVersion) ==
    ChangeTypeOf(ParseVersion(oldVersion), ParseVersion(newVersion))

(***************************************************************************)
(* Path helpers.                                                           *)
(***************************************************************************)
PkgJsonPath(projectPath) == Append(projectPath, "package.json")

Basename(p) == p[Len(p)]

Dirname(p) == SubSeq(p, 1, Len(p) - 1)

(***************************************************************************)
(* Manifest content.  A category is present or not; a present category     *)
(* maps each package name to its version string, or to Absent.             *)
(***************************************************************************)
NoCat == [present |-> FALSE, entries |-> [n \in PackageNames |-> Absent]]

Cat(reactEntry, lodashEntry) ==
    [present |-> TRUE,
     entries |-> [n \in PackageNames |-> IF n = React THEN reactEntry ELSE lodashEntry]]

Json(d, dev, peer, opt, ver) ==
    [deps |-> [t \in DepTypeSet |->
                  CASE t = "dependencies" -> d
                    [] t = "devDependencies" -> dev
                    [] t = "peerDependencies" -> peer
                    [] OTHER -> opt],
     version |-> ver]

NoVersion == <<>>           \* the manifest has no version field

EmptyJson == Json(NoCat, NoCat, NoCat, NoCat, NoVersion)

File(json, writable) == [exists |-> TRUE, readable |-> TRUE, writable |-> writable, json |-> json]

MissingFile == [exists |-> FALSE, readable |-> FALSE, writable |-> TRUE, json |-> EmptyJson]

UnreadableFile == [exists |-> TRUE, readable |-> FALSE, writable |-> TRUE, json |-> EmptyJson]

(***************************************************************************)
(* getVersionForType: the category rule.                                   *)
(***************************************************************************)
GetVersionForTypeNoPeerRule(version, exact, depType) ==
    IF exact THEN version ELSE <<"^">> \o version

GetVersionForType(version, exact, depType) ==
    IF depType = "peerDependencies"
    THEN <<"^">> \o version
    ELSE IF exact THEN version ELSE <<"^">> \o version

(***************************************************************************)
(* bumpDependency, one iteration of its loop over options.paths.           *)
(***************************************************************************)
ActiveDepsKeepPeer(noPeer) == DEP_TYPES

ActiveDeps(noPeer) ==
    IF noPeer
    THEN SelectSeq(DEP_TYPES, LAMBDA t : t # "peerDependencies")
    ELSE DEP_TYPES

\* pkgJson[depType] && packageName in pkgJson[depType]
HasPackage(pkgJson, depType, packageName) ==
    /\ pkgJson.deps[depType].present
    /\ packageName \in DOMAIN pkgJson.deps[depType].entries
    /\ pkgJson.deps[depType].entries[packageName] # Absent

NeedsChangeAlways(pkgJson, depType, options) ==
    HasPackage(pkgJson, depType, options.packageName)

\* the category is pushed to foundIn: it holds the package at another string
NeedsChange(pkgJson, depType, options) ==
    /\ HasPackage(pkgJson, depType, options.packageName)
    /\ pkgJson.deps[depType].entries[options.packageName]
         # GetVersionForType(options.version, options.exact, depType)

FoundIn(pkgJson, options) ==
    LET matched == SelectSeq(ActiveDeps(options.noPeer),
                             LAMBDA t : NeedsChange(pkgJson, t, options))
    IN [i \in 1..Len(matched) |->
           [type |-> matched[i],
            oldVersion |-> pkgJson.deps[matched[i]].entries[options.packageName],
            newVersion |-> GetVersionForType(options.version, options.exact, matched[i])]]

\* AlreadyAtVersion that forgets the categories found at the target
AlreadyAtVersionForgotten(pkgJson, options) == FALSE

\* alreadyAtVersion after the loop over the categories: one of them holds the target string
AlreadyAtVersion(pkgJson, options) ==
    \E i \in 1..Len(ActiveDeps(options.noPeer)) :
        LET t == ActiveDeps(options.noPeer)[i]
        IN /\ HasPackage(pkgJson, t, options.packageName)
           /\ pkgJson.deps[t].entries[options.packageName]
                = GetVersionForType(options.version, options.exact, t)

\* for (const { type, newVersion } of foundIn) pkgJson[type][packageName] = newVersion
ApplyChanges(pkgJson, foundIn, packageName) ==
    LET newOf(t) == LET i == CHOOSE i \in 1..Len(foundIn) : foundIn[i].type = t
                    IN foundIn[i].newVersion
        changed == {foundIn[i].type : i \in 1..Len(foundIn)}
    IN [pkgJson EXCEPT !.deps =
           [t \in DepTypeSet |->
               IF t \in changed
               THEN [pkgJson.deps[t] EXCEPT !.entries[packageName] = newOf(t)]
               ELSE pkgJson.deps[t]]]

Changes(foundIn) ==
    [i \in 1..Len(foundIn) |->
        [type |-> foundIn[i].type, from |-> foundIn[i].oldVersion, to |-> foundIn[i].newVersion]]

EmptyResults == [updated |-> <<>>, skipped |-> <<>>, notFound |-> <<>>, errors |-> <<>>]

WriteFileSyncIgnoreFailure(d, pkgJsonPath, pkgJson) ==
    [ok |-> TRUE, disk |-> [d EXCEPT ![pkgJsonPath].json = pkgJson]]

\* fs.writeFileSync(pkgJsonPath, JSON.stringify(pkgJson, null, 2) + "\n"): it throws
\* and leaves the file as it was when the file cannot be written
WriteFileSync(d, pkgJsonPath, pkgJson) ==
    IF d[pkgJsonPath].writable
    THEN [ok |-> TRUE, disk |-> [d EXCEPT ![pkgJsonPath].json = pkgJson]]
    ELSE [ok |-> FALSE, disk |-> d]

PushSkippedResetsList(results, projectName) ==
    [results EXCEPT !.skipped = <<[project |-> projectName]>>]

\* results.skipped = results.skipped || []; results.skipped.push({ project })
PushSkipped(results, projectName) ==
    [results EXCEPT !.skipped = Append(results.skipped, [project |-> projectName])]

PushError(results, projectName, reason) ==
    [results EXCEPT !.errors = Append(results.errors, [project |-> projectName, reason |-> reason])]

UpdateProjectWritesInDryRun(acc, pkgJsonPath, projectName, foundIn, options) ==
    LET entry == [project |-> projectName, changes |-> Changes(foundIn), filePath |-> pkgJsonPath]
        pkgJson == ApplyChanges(acc.disk[pkgJsonPath].json, foundIn, options.packageName)
        written == WriteFileSync(acc.disk, pkgJsonPath, pkgJson)
    IN IF written.ok
       THEN [results |-> [acc.results EXCEPT !.updated = Append(acc.results.updated, entry)],
             disk |-> written.disk]
       ELSE [acc EXCEPT !.results = PushError(acc.results, projectName, "failed to write package.json")]

\* the project has changes: report them (dry run), or write the manifest and report them
UpdateProject(acc, pkgJsonPath, projectName, foundIn, options) ==
    LET entry == [project |-> projectName, changes |-> Changes(foundIn), filePath |-> pkgJsonPath]
        pkgJson == ApplyChanges(acc.disk[pkgJsonPath].json, foundIn, options.packageName)
        written == WriteFileSync(acc.disk, pkgJsonPath, pkgJson)
    IN IF options.dryRun
       THEN [acc EXCEPT !.results.updated = Append(acc.results.updated, entry)]
       ELSE IF written.ok
       THEN [results |-> [acc.results EXCEPT !.updated = Append(acc.results.updated, entry)],
             disk |-> written.disk]
       ELSE [acc EXCEPT !.results = PushError(acc.results, projectName, "failed to write package.json")]

\* acc = [results, disk]; the body of the loop for one projectPath
ProcessProject(acc, projectPath, options) ==
    LET pkgJsonPath == PkgJsonPath(projectPath)
        projectName == Basename(projectPath)
        file == acc.disk[pkgJsonPath]
        foundIn == FoundIn(file.json, options)
    IN IF ~file.exists
       THEN [acc EXCEPT !.results = PushError(acc.results, projectName, "package.json not found")]
       ELSE IF ~file.readable
       THEN [acc EXCEPT !.results = PushError(acc.results, projectName, "failed to read package.json")]
       ELSE IF Len(foundIn) = 0
       THEN IF AlreadyAtVersion(file.json, options)
            THEN [acc EXCEPT !.results = PushSkipped(acc.results, projectName)]
            ELSE [acc EXCEPT !.results.notFound =
                     Append(acc.results.notFound, [project |-> projectName])]
       ELSE UpdateProject(acc, pkgJsonPath, projectName, foundIn, options)

RECURSIVE BumpLoopStopsAtError(_, _, _, _)
BumpLoopStopsAtError(acc, projectPaths, i, options) ==
    IF i > Len(projectPaths) \/ Len(acc.results.errors) > 0
    THEN acc
    ELSE BumpLoopStopsAtError(ProcessProject(acc, projectPaths[i], options),
                              projectPaths, i + 1, options)

RECURSIVE BumpLoop(_, _, _, _)
BumpLoop(acc, projectPaths, i, options) ==
    IF i > Len(projectPaths)
    THEN acc
    ELSE BumpLoop(ProcessProject(acc, projectPaths[i], options), projectPaths, i + 1, options)

BumpDependencyBackwards(d, options) ==
    BumpLoop([results |-> EmptyResults, disk |-> d],
             [k \in 1..Len(options.paths) |-> options.paths[Len(options.paths) + 1 - k]],
             1, options)

\* bumpDependency(options) on the disk d: the results it returns and the disk it leaves
BumpDependency(d, options) ==
    BumpLoop([results |-> EmptyResults, disk |-> d], options.paths, 1, options)

Options(req, projectPaths, dryRun) ==
    [packageName |-> req.packageName, version |-> req.version, paths |-> projectPaths,
     exact |-> req.exact, dryRun |-> dryRun, noPeer |-> req.noPeer]

(***************************************************************************)
(* Validation of a request.                                                *)
(***************************************************************************)
\* /^\d+\.\d+\.\d+(-[a-zA-Z0-9.-]+)?(\+[a-zA-Z0-9.-]+)?$/.test(version)
IsValidVersion(version) ==
    LET n == Len(version)
        tail == Letters \cup Digits \cup {".", "-"}
        e1 == RunEnd(version, 1, Digits)
        e2 == RunEnd(version, e1 + 2, Digits)
        e3 == RunEnd(version, e2 + 2, Digits)
        triple == /\ e1 >= 1
                  /\ e1 + 1 <= n /\ version[e1 + 1] = "."
                  /\ e2 >= e1 + 2
                  /\ e2 + 1 <= n /\ version[e2 + 1] = "."
                  /\ e3 >= e2 + 2
        e4 == IF e3 + 1 <= n /\ version[e3 + 1] = "-" /\ RunEnd(version, e3 + 2, tail) >= e3 + 2
              THEN RunEnd(version, e3 + 2, tail) ELSE e3
        e5 == IF e4 + 1 <= n /\ version[e4 + 1] = "+" /\ RunEnd(version, e4 + 2, tail) >= e4 + 2
              THEN RunEnd(version, e4 + 2, tail) ELSE e4
    IN triple /\ e5 = n

\* /^(@[a-z0-9-~][a-z0-9-._~]*\/)?[a-z0-9-~][a-z0-9-._~]*$/.test(name)
IsValidPackageName(name) ==
    LET n == Len(name)
        first == LowerCase \cup Digits \cup {"-", "~"}
        rest == first \cup {".", "_"}
        s1 == RunEnd(name, 3, rest)
        scoped == /\ n >= 3 /\ name[1] = "@" /\ name[2] \in first
                  /\ s1 + 1 <= n /\ name[s1 + 1] = "/"
        start == IF scoped THEN s1 + 2 ELSE 1
    IN /\ n > 0
       /\ start <= n /\ name[start] \in first
       /\ RunEnd(name, start + 1, rest) = n

\* .replace(/\.{2,}/g, ".") and .replace(/\/{2,}/g, "/"): runs of c become one c
RECURSIVE Squeeze(_, _)
Squeeze(s, c) ==
    IF Len(s) < 2 THEN s
    ELSE IF s[1] = c /\ s[2] = c THEN Squeeze(Tail(s), c)
    ELSE <<s[1]>> \o Squeeze(Tail(s), c)

BranchLimit == 100

SanitizeBranchName(branch) ==
    LET allowed == Letters \cup Digits \cup {"/", "_", ".", "-"}
        dashed == [i \in 1..Len(branch) |-> IF branch[i] \in allowed THEN branch[i] ELSE "-"]
        dots == Squeeze(dashed, ".")
        headed == IF Len(dots) > 0 /\ dots[1] \in {".", "-"} THEN Tail(dots) ELSE dots
        tailed == IF Len(headed) > 0 /\ headed[Len(headed)] \in {".", "-"}
                  THEN SubSeq(headed, 1, Len(headed) - 1) ELSE headed
        slashes == Squeeze(tailed, "/")
    IN IF Len(slashes) > BranchLimit THEN SubSeq(slashes, 1, BranchLimit) ELSE slashes

ValidateOptionsAcceptsAll(options) == [valid |-> TRUE, errors |-> <<>>]

\* validateOptions(options): the errors, in order
ValidateOptions(options) ==
    LET nameErrors == IF Len(options.packageName) = 0 THEN <<"Package name is required">>
                      ELSE IF ~IsValidPackageName(options.packageName)
                      THEN <<"Invalid package name">>
                      ELSE <<>>
        versionErrors == IF Len(options.version) = 0 THEN <<"Version is required">>
                         ELSE IF ~IsValidVersion(options.version)
                         THEN <<"Invalid version format">>
                         ELSE <<>>
        pathErrors == IF Len(options.paths) = 0 THEN <<"At least one path is required">>
                      ELSE <<>>
        errors == nameErrors \o versionErrors \o pathErrors
    IN [valid |-> Len(errors) = 0, errors |-> errors]

(***************************************************************************)
(* The git layer.  An external command is recorded with the tool, the      *)
(* command, the directory it runs in and its argument.                     *)
(***************************************************************************)
Git(command, cwd, arg) == [tool |-> "git", command |-> command, cwd |-> cwd, arg |-> arg]

\* escapeShellArg(str): str.replace(/\\/g, "\\\\").replace(/"/g, '\\"')
RECURSIVE EscapeShellArg(_)
EscapeShellArg(str) ==
    IF Len(str) = 0 THEN <<>>
    ELSE (CASE str[1] = "\\" -> <<"\\", "\\">>
            [] str[1] = "\"" -> <<"\\", "\"">>
            [] OTHER -> <<str[1]>>) \o EscapeShellArg(Tail(str))

IsPrefix(r, dir) == Len(r) <= Len(dir) /\ SubSeq(dir, 1, Len(r)) = r

\* isGitRepo(dir): git rev-parse --git-dir succeeds in dir
IsGitRepo(dir) == \E r \in repos : IsPrefix(r, dir)

IsGitRepoCmd(dir) == Git("rev-parse --git-dir", dir, <<>>)

\* getGitRoot(dir): the output of git rev-parse --show-toplevel in dir
GetGitRoot(dir) ==
    CHOOSE r \in repos : IsPrefix(r, dir) /\ \A q \in repos : IsPrefix(q, dir) => Len(q) <= Len(r)

GetGitRootCmd(dir) == Git("rev-parse --show-toplevel", dir, <<>>)

\* hasUncommittedChanges(dir): git status --porcelain prints something
HasUncommittedChanges(dir) == dir \in dirty

HasUncommittedChangesCmd(dir) == Git("status --porcelain", dir, <<>>)

FetchRemote(cwd) == Git("fetch", cwd, <<>>)

PullRebase(cwd) == Git("pull --rebase", cwd, <<>>)

GetCurrentBranchCmd(cwd) == Git("rev-parse --abbrev-ref HEAD", cwd, <<>>)

HasUpstreamCmd(cwd) == Git("rev-parse --abbrev-ref @{upstream}", cwd, <<>>)

\* the argument of a command is the text put between the double quotes of its line
CreateBranch(branchName, cwd) == Git("checkout -b", cwd, EscapeShellArg(branchName))

Commit(message, cwd) == Git("commit -m", cwd, EscapeShellArg(message))

\* path.relative(from, to)
RECURSIVE Relative(_, _)
Relative(from, to) ==
    IF Len(from) > 0 /\ Len(to) > 0 /\ from[1] = to[1]
    THEN Relative(Tail(from), Tail(to))
    ELSE [i \in 1..Len(from) |-> ".."] \o to

NoError == <<>>

IsBehindRemoteUnchecked(cwd, outcome) == [cmds |-> <<>>, behind |-> FALSE]

\* isBehindRemote(cwd): a failing fetch or rev-list counts as not behind
IsBehindRemote(cwd, outcome) ==
    [cmds |-> IF outcome = "fetchFails"
              THEN <<FetchRemote(cwd)>>
              ELSE <<FetchRemote(cwd), Git("rev-list --count HEAD..@{upstream}", cwd, <<>>)>>,
     behind |-> outcome = "behind"]

\* pushToRemote(cwd): the branch argument is not given by main
PushToRemote(cwd, outcome) ==
    [cmds |-> <<GetCurrentBranchCmd(cwd), HasUpstreamCmd(cwd),
                IF outcome = "noUpstream"
                THEN Git("push --set-upstream origin", cwd, <<"currentBranch">>)
                ELSE Git("push", cwd, <<>>)>>,
     success |-> outcome # "pushFails"]

PrepareRepoIgnoresDirt(dir, dryRun, outcome) ==
    LET gitRoot == GetGitRoot(dir)
        probes == <<IsGitRepoCmd(dir), GetGitRootCmd(dir)>>
    IN IF ~IsGitRepo(dir)
       THEN [cmds |-> <<IsGitRepoCmd(dir)>>, success |-> TRUE, error |-> NoError]
       ELSE IF dryRun
       THEN [cmds |-> probes, success |-> TRUE, error |-> NoError]
       ELSE [cmds |-> probes \o <<FetchRemote(gitRoot), HasUpstreamCmd(gitRoot), PullRebase(gitRoot)>>,
             success |-> TRUE, error |-> NoError]

\* prepareRepo(dir, dryRun): the commands it runs and what it returns
PrepareRepo(dir, dryRun, outcome) ==
    LET gitRoot == GetGitRoot(dir)
        probes == <<IsGitRepoCmd(dir), GetGitRootCmd(dir), HasUncommittedChangesCmd(gitRoot)>>
    IN IF ~IsGitRepo(dir)
       THEN [cmds |-> <<IsGitRepoCmd(dir)>>, success |-> TRUE, error |-> NoError]
       ELSE IF HasUncommittedChanges(gitRoot)
       THEN [cmds |-> probes, success |-> FALSE, error |-> <<"has uncommitted changes">>]
       ELSE IF dryRun
       THEN [cmds |-> probes, success |-> TRUE, error |-> NoError]
       ELSE CASE outcome = "fetchFails" ->
                    [cmds |-> probes \o <<FetchRemote(gitRoot)>>,
                     success |-> FALSE, error |-> <<"err.message">>]
              [] outcome = "noUpstream" ->
                    [cmds |-> probes \o <<FetchRemote(gitRoot), HasUpstreamCmd(gitRoot)>>,
                     success |-> TRUE, error |-> NoError]
              [] outcome = "pullFails" ->
                    [cmds |-> probes \o <<FetchRemote(gitRoot), HasUpstreamCmd(gitRoot),
                                          PullRebase(gitRoot)>>,
                     success |-> FALSE, error |-> <<"err.message">>]
              [] OTHER ->
                    [cmds |-> probes \o <<FetchRemote(gitRoot), HasUpstreamCmd(gitRoot),
                                          PullRebase(gitRoot)>>,
                     success |-> TRUE, error |-> NoError]

NoBranch == <<>>        \* branch: undefined

NoMessage == <<>>       \* commitMessage: undefined

\* defaultCommitMessage(packageNames, version) for a packageNames that is a string
DefaultCommitMessage(packageNames, version) ==
    IF Len(version) > 0
    THEN <<"Update ">> \o packageNames \o <<" dependency">>
    ELSE <<"Update ">> \o packageNames \o <<" dependencies">>

\* stageFiles(files, cwd): git add of each file in turn, until one fails; a path that
\* leaves the working tree cannot be added
StageFiles(files, cwd, outcome) ==
    LET bad == {k \in 1..Len(files) :
                    (k = 1 /\ outcome = "stageFails") \/ (Len(files[k]) > 0 /\ files[k][1] = "..")}
        last == IF bad = {} THEN Len(files) ELSE CHOOSE k \in bad : \A j \in bad : k <= j
    IN [cmds |-> [k \in 1..last |-> Git("add", cwd, EscapeShellArg(files[k]))], ok |-> bad = {}]

PerformGitOperationsInDryRun(options, outcome) ==
    LET updatedFiles == options.updatedFiles
        fileDir == Dirname(updatedFiles[1])
        gitRoot == GetGitRoot(fileDir)
        message == IF options.commitMessage # NoMessage
                   THEN options.commitMessage
                   ELSE DefaultCommitMessage(options.packageName, options.version)
        probes == <<IsGitRepoCmd(fileDir), GetGitRootCmd(fileDir)>>
        withBranch == options.branch # NoBranch
        branchCmds == IF withBranch THEN <<CreateBranch(options.branch, gitRoot)>> ELSE <<>>
        branchFails == withBranch /\ (outcome = "branchFails" \/ gitRoot \in branches)
        relativeFiles == [k \in 1..Len(updatedFiles) |-> Relative(gitRoot, updatedFiles[k])]
        staged == StageFiles(relativeFiles, gitRoot, outcome)
        commitCmds == IF options.shouldCommit THEN <<Commit(message, gitRoot)>> ELSE <<>>
        created == IF withBranch /\ ~branchFails THEN {gitRoot} ELSE {}
    IN IF Len(updatedFiles) = 0
       THEN [cmds |-> <<>>, success |-> FALSE, created |-> {}]
       ELSE IF ~IsGitRepo(fileDir)
       THEN [cmds |-> <<IsGitRepoCmd(fileDir)>>, success |-> FALSE, created |-> {}]
       ELSE IF branchFails
       THEN [cmds |-> probes \o branchCmds, success |-> FALSE, created |-> {}]
       ELSE IF ~staged.ok
       THEN [cmds |-> probes \o branchCmds \o staged.cmds, success |-> FALSE, created |-> created]
       ELSE [cmds |-> probes \o branchCmds \o staged.cmds \o commitCmds,
             success |-> ~(options.shouldCommit /\ outcome = "commitFails"),
             created |-> created]

\* performGitOperations(options): the commands it runs, whether it succeeds, and the
\* root where it has created the branch (none: <<>>)
PerformGitOperations(options, outcome) ==
    LET updatedFiles == options.updatedFiles
        fileDir == Dirname(updatedFiles[1])
        gitRoot == GetGitRoot(fileDir)
        message == IF options.commitMessage # NoMessage
                   THEN options.commitMessage
                   ELSE DefaultCommitMessage(options.packageName, options.version)
        probes == <<IsGitRepoCmd(fileDir), GetGitRootCmd(fileDir)>>
        withBranch == options.branch # NoBranch
        branchCmds == IF withBranch THEN <<CreateBranch(options.branch, gitRoot)>> ELSE <<>>
        branchFails == withBranch /\ (outcome = "branchFails" \/ gitRoot \in branches)
        relativeFiles == [k \in 1..Len(updatedFiles) |-> Relative(gitRoot, updatedFiles[k])]
        staged == StageFiles(relativeFiles, gitRoot, outcome)
        commitCmds == IF options.shouldCommit THEN <<Commit(message, gitRoot)>> ELSE <<>>
        created == IF withBranch /\ ~branchFails THEN {gitRoot} ELSE {}
    IN IF Len(updatedFiles) = 0
       THEN [cmds |-> <<>>, success |-> FALSE, created |-> {}]
       ELSE IF ~IsGitRepo(fileDir)
       THEN [cmds |-> <<IsGitRepoCmd(fileDir)>>, success |-> FALSE, created |-> {}]
       ELSE IF options.dryRun
       THEN [cmds |-> probes, success |-> TRUE, created |-> {}]
       ELSE IF branchFails
       THEN [cmds |-> probes \o branchCmds, success |-> FALSE, created |-> {}]
       ELSE IF ~staged.ok
       THEN [cmds |-> probes \o branchCmds \o staged.cmds, success |-> FALSE, created |-> created]
       ELSE [cmds |-> probes \o branchCmds \o staged.cmds \o commitCmds,
             success |-> ~(options.shouldCommit /\ outcome = "commitFails"),
             created |-> created]

\* the ways the commands of performGitOperations(options) can fail
GitFailures(options) ==
    IF Len(options.updatedFiles) = 0 \/ options.dryRun
          \/ ~IsGitRepo(Dirname(options.updatedFiles[1]))
    THEN {}
    ELSE (IF options.branch # NoBranch THEN {"branchFails"} ELSE {})
         \cup {"stageFails"}
         \cup (IF options.shouldCommit THEN {"commitFails"} ELSE {})

UniqueKeepsAll(list) == list

\* [...new Set(list)]
RECURSIVE Unique(_)
Unique(list) ==
    IF Len(list) = 0 THEN <<>>
    ELSE LET front == Unique(SubSeq(list, 1, Len(list) - 1))
             x == list[Len(list)]
         IN IF \E i \in 1..Len(front) : front[i] = x THEN front ELSE Append(front, x)

(***************************************************************************)
(* The version bump of a project.                                          *)
(***************************************************************************)
Npm(command, cwd, arg) == [tool |-> "npm", command |-> command, cwd |-> cwd, arg |-> arg]

NoBump == ""            \* bumpVersion: undefined

\* the command line of a prerelease bump with a prerelease identifier:
\* `npm version ${bumpType}${preidArg}`, preidArg = ` --preid ${preid}`
NpmVersionPreid(projectPath, preid) == Npm("version prerelease --preid", projectPath, preid)

DefaultPreid == <<"0">>

\* what npm version may do
NpmOutcomes == {"ok", "differs", "failed"}

\* a version that npm computes by rules of its own
NpmOwnVersion == <<"9", ".", "9", ".", "9", "-", "0">>

NpmWrites(newVersion, npm) == IF npm = "differs" THEN NpmOwnVersion ELSE newVersion

\* ReadBack that reports the version read before npm version ran
ReadBackOldVersion(d, pkgJsonPath, oldVersion, command) ==
    [success |-> TRUE, error |-> "", cmds |-> <<command>>, disk |-> d,
     oldVersion |-> oldVersion, newVersion |-> oldVersion, filePath |-> pkgJsonPath]

\* after npm version: the manifest is read again and its version is the one reported
ReadBack(d, pkgJsonPath, oldVersion, command) ==
    [success |-> TRUE, error |-> "", cmds |-> <<command>>, disk |-> d,
     oldVersion |-> oldVersion, newVersion |-> d[pkgJsonPath].json.version,
     filePath |-> pkgJsonPath]

\* bumpProjectVersion({ projectPath, bumpType, preid: undefined, dryRun }) on the disk d;
\* npm: what npm version does: it fails, or it writes the version that suggestNextVersion
\* names, or it writes a version of its own.  The new version of a live run is read back.
BumpProjectVersion(d, projectPath, bumpType, dryRun, npm) ==
    LET pkgJsonPath == PkgJsonPath(projectPath)
        file == d[pkgJsonPath]
        oldVersion == file.json.version
        newVersion == SuggestNextVersion(oldVersion, bumpType, DefaultPreid)
        failure(error) == [success |-> FALSE, error |-> error, cmds |-> <<>>, disk |-> d,
                           oldVersion |-> NoVersion, newVersion |-> NoVersion,
                           filePath |-> pkgJsonPath]
        command == Npm("version", projectPath, <<bumpType>>)
    IN IF ~file.exists THEN failure("package.json not found")
       ELSE IF ~file.readable THEN failure("err.message")
       ELSE IF oldVersion = NoVersion THEN failure("No version field in package.json")
       ELSE IF newVersion = NullString THEN failure("Could not calculate version")
       ELSE IF dryRun
       THEN [success |-> TRUE, error |-> "", cmds |-> <<>>, disk |-> d,
             oldVersion |-> oldVersion, newVersion |-> newVersion, filePath |-> pkgJsonPath]
       ELSE IF npm = "failed"
       THEN [failure("err.message") EXCEPT !.cmds = <<command>>]
       ELSE ReadBack([d EXCEPT ![pkgJsonPath].json.version = NpmWrites(newVersion, npm)],
                     pkgJsonPath, oldVersion, command)

NoVersionResults == [updated |-> <<>>, errors |-> <<>>]

NoPushResults == [success |-> <<>>, failed |-> <<>>, skipped |-> <<>>]

NoOptions ==
    [exact |-> FALSE, noPeer |-> FALSE, dryRun |-> FALSE, sync |-> FALSE, commit |-> FALSE,
     singleCommit |-> FALSE, push |-> FALSE, message |-> NoMessage, branch |-> NoBranch,
     bumpVersion |-> NoBump]

(***************************************************************************)
(* The inputs of the update engine.                                        *)
(***************************************************************************)
V100 == <<"1", ".", "0", ".", "0">>

C100 == <<"^">> \o V100

OldRange == <<"^", "0", ".", "9", ".", "0">>

C400 == <<"^", "4", ".", "0", ".", "0">>

TargetVersion == V100

ProjectPaths == {<<"mono", "app1">>, <<"mono", "app2">>, <<"solo">>}

FocusProject == <<"mono", "app1">>

\* the first project: every combination of the ordinary and the peer category, and
\* some of them with a development category that is at the exact target
FullJsons ==
    {Json(d, NoCat, peer, NoCat, V100) :
        d \in {NoCat, Cat(Absent, C400), Cat(OldRange, C400),
               Cat(V100, Absent), Cat(C100, Absent)},
        peer \in {NoCat, Cat(OldRange, Absent), Cat(V100, Absent), Cat(C100, Absent)}}
    \cup
    {Json(x[1], Cat(V100, C400), x[2], NoCat, V100) :
        x \in {<<NoCat, NoCat>>, <<Cat(OldRange, Absent), NoCat>>,
               <<NoCat, Cat(OldRange, Absent)>>, <<Cat(C100, Absent), Cat(C100, Absent)>>}}

\* the other projects: one manifest per outcome
SampleJsons ==
    {Json(Cat(OldRange, Absent), NoCat, Cat(OldRange, Absent), NoCat, V100),
     Json(Cat(Absent, C400), NoCat, NoCat, Cat(V100, C400), NoVersion)}

ManifestsOf(projectPath) ==
    {MissingFile, UnreadableFile} \cup
    IF projectPath = FocusProject
    THEN {File(j, TRUE) : j \in FullJsons}
         \cup {File(j, FALSE) : j \in {x \in FullJsons : ~x.deps["peerDependencies"].present}}
    ELSE {File(j, TRUE) : j \in SampleJsons}
         \cup {File(Json(NoCat, Cat(OldRange, Absent), NoCat, NoCat, V100), FALSE)}

\* lists of distinct project paths (main deduplicates options.paths)
PathLists ==
    {s \in UNION {[1..n -> ProjectPaths] : n \in 1..MaxPaths} :
        \A i, j \in 1..Len(s) : i # j => s[i] # s[j]}

RECURSIVE DisksFor(_)
DisksFor(ps) ==
    IF ps = {}
    THEN {<<>>}
    ELSE LET p == CHOOSE q \in ps : TRUE
         IN {(PkgJsonPath(p) :> m) @@ d : m \in ManifestsOf(p), d \in DisksFor(ps \ {p})}

Requests ==
    [packageName : {React}, version : {TargetVersion}, exact : BOOLEAN, noPeer : BOOLEAN]

(***************************************************************************)
(* The update engine on its own: bumpDependency is called on the same      *)
(* request and paths, first perhaps as a dry run, then live.               *)
(***************************************************************************)
InitUpdate ==
    /\ paths \in PathLists
    /\ disk \in DisksFor(Range(paths))
    /\ request \in Requests
    /\ runs = <<>>
    /\ opts = NoOptions
    /\ packages = <<>>
    /\ repos = {}
    /\ dirty = {}
    /\ branches = {}
    /\ pc = "engine"
    /\ idx = 1
    /\ cmds = <<>>
    /\ allUpdatedFiles = <<>>
    /\ branchCreated = FALSE
    /\ hadErrors = FALSE
    /\ seenRoots = {}
    /\ versionResults = NoVersionResults
    /\ pushResults = NoPushResults
    /\ anomalies = 0

Call(dryRun) ==
    LET out == BumpDependency(disk, Options(request, paths, dryRun))
    IN /\ disk' = out.disk
       /\ runs' = Append(runs, [dryRun |-> dryRun, before |-> disk,
                                results |-> out.results, after |-> out.disk,
                                packageName |-> request.packageName,
                                version |-> request.version])
       /\ UNCHANGED <<paths, request>>
       /\ UNCHANGED mainVars

DryRunCall ==
    /\ runs = <<>>
    /\ Call(TRUE)

LiveCall ==
    /\ Len(runs) < MaxRuns
    /\ Call(FALSE)

NextUpdate == DryRunCall \/ LiveCall

SpecUpdate == InitUpdate /\ [][NextUpdate]_vars

(***************************************************************************)
(* The inputs of main.                                                     *)
(***************************************************************************)
V410 == <<"4", ".", "1", ".", "0">>

BadVersion == <<"4", ".", "1">>

RawBranch == <<"f", "i", "x", " ", "1">>

\* the k-th package request given on the command line
CatalogAt(k) ==
    CASE k % 3 = 1 -> [name |-> React, version |-> V100]
      [] k % 3 = 2 -> [name |-> Lodash, version |-> BadVersion]
      [] OTHER -> [name |-> Lodash, version |-> V410]

BadName == <<"L", "o", "d", "a", "s", "h">>

\* the k-th of n package requests: the second one is malformed, in its name when it is
\* the last one, in its version otherwise
RequestAt(n, k) ==
    IF n = 2 /\ k = 2 THEN [name |-> BadName, version |-> V410] ELSE CatalogAt(k)

PackageLists == {[k \in 1..n |-> RequestAt(n, k)] : n \in 1..MaxPackages}

MainPathLists == {s \in PathLists : s[1] = FocusProject}

MainManifestsOf(projectPath) ==
    CASE projectPath = FocusProject ->
            {File(Json(Cat(OldRange, C400), NoCat, Cat(OldRange, Absent), NoCat, V100), w) :
                w \in BOOLEAN}
      [] projectPath = <<"solo">> ->
            {File(Json(Cat(OldRange, Absent), NoCat, NoCat, NoCat, NoVersion), TRUE)}
      [] OTHER ->
            {File(Json(Cat(C100, C400), NoCat, NoCat, NoCat, V100), TRUE)}

RECURSIVE MainDisksFor(_)
MainDisksFor(ps) ==
    IF ps = {}
    THEN {<<>>}
    ELSE LET p == CHOOSE q \in ps : TRUE
         IN {(PkgJsonPath(p) :> m) @@ d : m \in MainManifestsOf(p), d \in MainDisksFor(ps \ {p})}

RepoSets == {{<<"mono">>, <<"solo">>}, {<<"mono">>}}

\* baseOptions after the command line is parsed and the branch name sanitized
OptionSets ==
    {[exact |-> FALSE, noPeer |-> FALSE, dryRun |-> f[1], sync |-> f[2], commit |-> f[3],
      singleCommit |-> f[4], push |-> f[5], message |-> NoMessage,
      branch |-> IF b = NoBranch THEN NoBranch ELSE SanitizeBranchName(b),
      bumpVersion |-> v] :
        f \in [1..5 -> BOOLEAN], b \in {NoBranch, RawBranch}, v \in {NoBump, "patch"}}

(***************************************************************************)
(* main: sync, then each package, then the commits, the version bumps and  *)
(* the pushes.                                                             *)
(***************************************************************************)
Init ==
    /\ paths \in MainPathLists
    /\ disk \in MainDisksFor(Range(paths))
    /\ packages \in PackageLists
    /\ opts \in OptionSets
    /\ repos \in RepoSets
    /\ dirty \in {{}} \cup (IF opts.sync THEN {{r} : r \in repos} ELSE {})
    /\ request = [packageName |-> packages[1].name, version |-> packages[1].version,
                  exact |-> opts.exact, noPeer |-> opts.noPeer]
    /\ runs = <<>>
    /\ branches = {}
    /\ pc = "sync"
    /\ idx = 1
    /\ cmds = <<>>
    /\ allUpdatedFiles = <<>>
    /\ branchCreated = FALSE
    /\ hadErrors = FALSE
    /\ seenRoots = {}
    /\ versionResults = NoVersionResults
    /\ pushResults = NoPushResults
    /\ anomalies = 0

Deviation(outcome) == IF outcome = "ok" THEN 0 ELSE 1

Outcomes(failures) == {"ok"} \cup (IF anomalies < MaxAnomalies THEN failures ELSE {})

\* one call of performGitOperations from main
GitStep(options, outcome) ==
    LET result == PerformGitOperations(options, outcome)
    IN /\ cmds' = cmds \o result.cmds
       /\ branches' = branches \cup result.created
       /\ anomalies' = anomalies + Deviation(outcome)

SyncPathEveryProject ==
    /\ pc = "sync" /\ opts.sync /\ idx <= Len(paths)
    /\ LET projectPath == paths[idx]
           gitRoot == GetGitRoot(projectPath)
       IN IF ~IsGitRepo(projectPath)
          THEN /\ cmds' = Append(cmds, IsGitRepoCmd(projectPath))
               /\ idx' = idx + 1
               /\ UNCHANGED <<pc, seenRoots, anomalies>>
          ELSE \E outcome \in Outcomes(IF opts.dryRun \/ gitRoot \in dirty THEN {}
                                       ELSE {"fetchFails", "noUpstream", "pullFails"}) :
                LET result == PrepareRepo(projectPath, opts.dryRun, outcome)
                IN /\ cmds' = cmds \o <<IsGitRepoCmd(projectPath), GetGitRootCmd(projectPath)>>
                                   \o result.cmds
                   /\ seenRoots' = seenRoots \cup {gitRoot}
                   /\ anomalies' = anomalies + Deviation(outcome)
                   /\ IF ~result.success /\ result.error # NoError
                      THEN pc' = "exited" /\ idx' = idx
                      ELSE pc' = pc /\ idx' = idx + 1
    /\ UNCHANGED <<disk, paths, request, runs, opts, packages, repos, dirty, branches,
                   allUpdatedFiles, branchCreated, hadErrors, versionResults, pushResults>>

\* one iteration of the loop over baseOptions.paths of the sync
SyncPath ==
    /\ pc = "sync" /\ opts.sync /\ idx <= Len(paths)
    /\ LET projectPath == paths[idx]
           gitRoot == GetGitRoot(projectPath)
       IN IF ~IsGitRepo(projectPath)
          THEN /\ cmds' = Append(cmds, IsGitRepoCmd(projectPath))
               /\ idx' = idx + 1
               /\ UNCHANGED <<pc, seenRoots, anomalies>>
          ELSE IF gitRoot \in seenRoots
          THEN /\ cmds' = cmds \o <<IsGitRepoCmd(projectPath), GetGitRootCmd(projectPath)>>
               /\ idx' = idx + 1
               /\ UNCHANGED <<pc, seenRoots, anomalies>>
          ELSE \E outcome \in Outcomes(IF opts.dryRun \/ gitRoot \in dirty THEN {}
                                       ELSE {"fetchFails", "noUpstream", "pullFails"}) :
                LET result == PrepareRepo(projectPath, opts.dryRun, outcome)
                IN /\ cmds' = cmds \o <<IsGitRepoCmd(projectPath), GetGitRootCmd(projectPath)>>
                                   \o result.cmds
                   /\ seenRoots' = seenRoots \cup {gitRoot}
                   /\ anomalies' = anomalies + Deviation(outcome)
                   /\ IF ~result.success /\ result.error # NoError
                      THEN pc' = "exited" /\ idx' = idx
                      ELSE pc' = pc /\ idx' = idx + 1
    /\ UNCHANGED <<disk, paths, request, runs, opts, packages, repos, dirty, branches,
                   allUpdatedFiles, branchCreated, hadErrors, versionResults, pushResults>>

SyncDone ==
    /\ pc = "sync" /\ (~opts.sync \/ idx > Len(paths))
    /\ pc' = "packages"
    /\ idx' = 1
    /\ UNCHANGED <<disk, paths, request, runs, opts, packages, repos, dirty, branches, cmds,
                   allUpdatedFiles, branchCreated, hadErrors, seenRoots, versionResults,
                   pushResults, anomalies>>

\* one iteration of the loop over packages
ProcessPackage ==
    /\ pc = "packages" /\ idx <= Len(packages)
    /\ LET pkg == packages[idx]
           options == [packageName |-> pkg.name, version |-> pkg.version, paths |-> paths,
                       exact |-> opts.exact, noPeer |-> opts.noPeer, dryRun |-> opts.dryRun]
           validation == ValidateOptions(options)
           out == BumpDependency(disk, options)
           updated == out.results.updated
           updatedFilePaths == [k \in 1..Len(updated) |-> updated[k].filePath]
           gitOptions == [updatedFiles |-> updatedFilePaths, packageName |-> pkg.name,
                          version |-> pkg.version, shouldCommit |-> TRUE,
                          branch |-> IF ~branchCreated THEN opts.branch ELSE NoBranch,
                          commitMessage |-> opts.message, dryRun |-> opts.dryRun]
       IN IF ~validation.valid
          THEN /\ hadErrors' = TRUE
               /\ UNCHANGED <<disk, request, runs, allUpdatedFiles, branchCreated, cmds,
                              branches, anomalies>>
          ELSE /\ disk' = out.disk
               /\ request' = [packageName |-> pkg.name, version |-> pkg.version,
                              exact |-> opts.exact, noPeer |-> opts.noPeer]
               /\ runs' = Append(runs, [dryRun |-> opts.dryRun, before |-> disk,
                                        results |-> out.results, after |-> out.disk,
                                        packageName |-> pkg.name, version |-> pkg.version])
               /\ UNCHANGED hadErrors
               /\ IF Len(updated) > 0
                  THEN /\ allUpdatedFiles' = allUpdatedFiles \o updatedFilePaths
                       /\ IF opts.commit /\ ~opts.singleCommit
                          THEN /\ \E outcome \in Outcomes(GitFailures(gitOptions)) :
                                     GitStep(gitOptions, outcome)
                               /\ branchCreated' = TRUE
                          ELSE UNCHANGED <<branchCreated, cmds, branches, anomalies>>
                  ELSE UNCHANGED <<allUpdatedFiles, branchCreated, cmds, branches, anomalies>>
    /\ idx' = idx + 1
    /\ UNCHANGED <<paths, opts, packages, repos, dirty, pc, seenRoots, versionResults,
                   pushResults>>

PackagesDone ==
    /\ pc = "packages" /\ idx > Len(packages)
    /\ pc' = "singleCommit"
    /\ UNCHANGED <<disk, paths, request, runs, opts, packages, repos, dirty, branches, idx, cmds,
                   allUpdatedFiles, branchCreated, hadErrors, seenRoots, versionResults,
                   pushResults, anomalies>>

PkgSummary ==
    IF Len(packages) = 1
    THEN packages[1].name \o <<" to ">> \o packages[1].version
    ELSE NumberToString(Len(packages)) \o <<" packages">>

\* single commit mode: commit all packages together
SingleCommit ==
    /\ pc = "singleCommit"
    /\ LET gitOptions == [updatedFiles |-> Unique(allUpdatedFiles), packageName |-> PkgSummary,
                          version |-> <<>>, shouldCommit |-> opts.commit, branch |-> opts.branch,
                          commitMessage |-> opts.message, dryRun |-> opts.dryRun]
       IN IF opts.singleCommit /\ (opts.commit \/ opts.branch # NoBranch)
                /\ Len(allUpdatedFiles) > 0
          THEN \E outcome \in Outcomes(GitFailures(gitOptions)) : GitStep(gitOptions, outcome)
          ELSE UNCHANGED <<cmds, branches, anomalies>>
    /\ pc' = "branchOnly"
    /\ UNCHANGED <<disk, paths, request, runs, opts, packages, repos, dirty, idx,
                   allUpdatedFiles, branchCreated, hadErrors, seenRoots, versionResults,
                   pushResults>>

\* branch-only mode: no commit, but a branch was requested
BranchOnly ==
    /\ pc = "branchOnly"
    /\ LET gitOptions == [updatedFiles |-> Unique(allUpdatedFiles), packageName |-> <<>>,
                          version |-> <<>>, shouldCommit |-> FALSE, branch |-> opts.branch,
                          commitMessage |-> NoMessage, dryRun |-> opts.dryRun]
       IN IF opts.branch # NoBranch /\ ~opts.commit /\ Len(allUpdatedFiles) > 0
          THEN \E outcome \in Outcomes(GitFailures(gitOptions)) : GitStep(gitOptions, outcome)
          ELSE UNCHANGED <<cmds, branches, anomalies>>
    /\ pc' = "bump"
    /\ idx' = 1
    /\ UNCHANGED <<disk, paths, request, runs, opts, packages, repos, dirty,
                   allUpdatedFiles, branchCreated, hadErrors, seenRoots, versionResults,
                   pushResults>>

UpdatedProjectPathsAll == IF opts.bumpVersion # NoBump THEN paths ELSE <<>>

\* the projects whose version is bumped: those that had dependency updates
UpdatedProjectPaths ==
    IF opts.bumpVersion # NoBump /\ Len(allUpdatedFiles) > 0
    THEN Unique([k \in 1..Len(allUpdatedFiles) |-> Dirname(allUpdatedFiles[k])])
    ELSE <<>>

\* BumpVersion that leaves the loop at the first project that fails
BumpVersionStopsAtError ==
    /\ pc = "bump" /\ idx <= Len(UpdatedProjectPaths)
    /\ \E npm \in {"ok"} \cup (IF anomalies < MaxAnomalies /\ ~opts.dryRun
                               THEN NpmOutcomes ELSE {}) :
          LET projectPath == UpdatedProjectPaths[idx]
              projectName == Basename(projectPath)
              result == BumpProjectVersion(disk, projectPath, opts.bumpVersion, opts.dryRun, npm)
          IN /\ disk' = result.disk
             /\ cmds' = cmds \o result.cmds
             /\ anomalies' = anomalies + (IF npm = "ok" THEN 0 ELSE 1)
             /\ versionResults' =
                   IF result.success
                   THEN [versionResults EXCEPT !.updated =
                            Append(@, [projectName |-> projectName, filePath |-> result.filePath,
                                       oldVersion |-> result.oldVersion,
                                       newVersion |-> result.newVersion])]
                   ELSE [versionResults EXCEPT !.errors =
                            Append(@, [projectName |-> projectName, error |-> result.error])]
             /\ idx' = IF result.success THEN idx + 1 ELSE Len(UpdatedProjectPaths) + 1
    /\ UNCHANGED <<paths, request, runs, opts, packages, repos, dirty, branches, pc,
                   allUpdatedFiles, branchCreated, hadErrors, seenRoots, pushResults>>

\* one iteration of the loop of bumpVersions
BumpVersion ==
    /\ pc = "bump" /\ idx <= Len(UpdatedProjectPaths)
    /\ \E npm \in {"ok"} \cup (IF anomalies < MaxAnomalies /\ ~opts.dryRun
                               THEN NpmOutcomes ELSE {}) :
          LET projectPath == UpdatedProjectPaths[idx]
              projectName == Basename(projectPath)
              result == BumpProjectVersion(disk, projectPath, opts.bumpVersion, opts.dryRun, npm)
          IN /\ disk' = result.disk
             /\ cmds' = cmds \o result.cmds
             /\ anomalies' = anomalies + (IF npm = "ok" THEN 0 ELSE 1)
             /\ versionResults' =
                   IF result.success
                   THEN [versionResults EXCEPT !.updated =
                            Append(@, [projectName |-> projectName, filePath |-> result.filePath,
                                       oldVersion |-> result.oldVersion,
                                       newVersion |-> result.newVersion])]
                   ELSE [versionResults EXCEPT !.errors =
                            Append(@, [projectName |-> projectName, error |-> result.error])]
    /\ idx' = idx + 1
    /\ UNCHANGED <<paths, request, runs, opts, packages, repos, dirty, branches, pc,
                   allUpdatedFiles, branchCreated, hadErrors, seenRoots, pushResults>>

\* after bumpVersions: commit the version bumps if --commit is enabled
CommitVersions ==
    /\ pc = "bump" /\ idx > Len(UpdatedProjectPaths)
    /\ LET updated == versionResults.updated
           versionFiles == [k \in 1..Len(updated) |-> updated[k].filePath]
           gitOptions == [updatedFiles |-> versionFiles,
                          packageName |-> <<"version bump">>,
                          version |-> <<opts.bumpVersion>>, shouldCommit |-> TRUE,
                          branch |-> NoBranch,
                          commitMessage |->
                              IF opts.message # NoMessage THEN opts.message
                              ELSE <<"Bump versions (", opts.bumpVersion, ")">>,
                          dryRun |-> opts.dryRun]
       IN /\ IF opts.commit /\ Len(updated) > 0
             THEN /\ \E outcome \in Outcomes(GitFailures(gitOptions)) :
                        GitStep(gitOptions, outcome)
                  /\ allUpdatedFiles' = allUpdatedFiles \o versionFiles
             ELSE UNCHANGED <<cmds, branches, anomalies, allUpdatedFiles>>
          /\ hadErrors' = (hadErrors \/ Len(versionResults.errors) > 0)
    /\ pc' = "push"
    /\ idx' = 1
    /\ seenRoots' = {}
    /\ UNCHANGED <<disk, paths, request, runs, opts, packages, repos, dirty, branchCreated,
                   versionResults, pushResults>>

\* PushFiles that takes the manifests of all the given projects
PushFilesOfAllPaths ==
    IF opts.push /\ Len(allUpdatedFiles) > 0
    THEN [k \in 1..Len(paths) |-> PkgJsonPath(paths[k])]
    ELSE <<>>

\* the files whose repositories the push loop visits
PushFiles == IF opts.push /\ Len(allUpdatedFiles) > 0 THEN allUpdatedFiles ELSE <<>>

\* one iteration of the loop over allUpdatedFiles of the push
PushFile ==
    /\ pc = "push" /\ idx <= Len(PushFiles)
    /\ LET dir == Dirname(PushFiles[idx])
           gitRoot == GetGitRoot(dir)
           repoName == Basename(gitRoot)
           probes == <<IsGitRepoCmd(dir), GetGitRootCmd(dir)>>
       IN IF ~IsGitRepo(dir)
          THEN /\ cmds' = Append(cmds, IsGitRepoCmd(dir))
               /\ UNCHANGED <<seenRoots, pushResults, anomalies>>
          ELSE IF gitRoot \in seenRoots
          THEN /\ cmds' = cmds \o probes
               /\ UNCHANGED <<seenRoots, pushResults, anomalies>>
          ELSE /\ seenRoots' = seenRoots \cup {gitRoot}
               /\ IF opts.dryRun
                  THEN /\ cmds' = cmds \o probes
                       /\ pushResults' = [pushResults EXCEPT !.success = Append(@, repoName)]
                       /\ UNCHANGED anomalies
                  ELSE \E outcome \in Outcomes({"fetchFails", "behind", "noUpstream",
                                                "pushFails"}) :
                          LET check == IsBehindRemote(gitRoot, outcome)
                              push == PushToRemote(gitRoot, outcome)
                          IN /\ anomalies' = anomalies + Deviation(outcome)
                             /\ IF check.behind
                                THEN /\ cmds' = cmds \o probes \o check.cmds
                                     /\ pushResults' =
                                           [pushResults EXCEPT !.skipped = Append(@, repoName)]
                                ELSE /\ cmds' = cmds \o probes \o check.cmds \o push.cmds
                                     /\ pushResults' =
                                           IF push.success
                                           THEN [pushResults EXCEPT
                                                    !.success = Append(@, repoName)]
                                           ELSE [pushResults EXCEPT
                                                    !.failed = Append(@, repoName)]
    /\ idx' = idx + 1
    /\ UNCHANGED <<disk, paths, request, runs, opts, packages, repos, dirty, branches, pc,
                   allUpdatedFiles, branchCreated, hadErrors, versionResults>>

\* the push summary and the end of main
Finish ==
    /\ pc = "push" /\ idx > Len(PushFiles)
    /\ hadErrors' = (hadErrors \/ Len(pushResults.failed) > 0)
    /\ pc' = "done"
    /\ UNCHANGED <<disk, paths, request, runs, opts, packages, repos, dirty, branches, idx, cmds,
                   allUpdatedFiles, branchCreated, seenRoots, versionResults, pushResults,
                   anomalies>>

Next ==
    \/ SyncPath
    \/ SyncDone
    \/ ProcessPackage
    \/ PackagesDone
    \/ SingleCommit
    \/ BranchOnly
    \/ BumpVersion
    \/ CommitVersions
    \/ PushFile
    \/ Finish

Spec == Init /\ [][Next]_vars

\* process.exit(1): during the sync, or at the end when hadErrors
ExitCode == IF pc = "exited" \/ (pc = "done" /\ hadErrors) THEN 1 ELSE 0

(***************************************************************************)
(* The git layer on its own: a user-supplied text is given to createBranch *)
(* (after main has sanitized it), to commit and to stageFiles, or is the    *)
(* prerelease identifier of bumpProjectVersion.                            *)
(***************************************************************************)
\* the grave accent, a character that a string literal here cannot hold
GraveAccent == "grave"

TextChars == {"a", "\"", "\\", "$", GraveAccent}

Texts == UNION {[1..n -> TextChars] : n \in 1..MaxText}

InitShell ==
    /\ request \in Texts
    /\ paths = <<>>
    /\ disk = <<>>
    /\ runs = <<>>
    /\ opts = NoOptions
    /\ packages = <<>>
    /\ repos = {<<"mono">>}
    /\ dirty = {}
    /\ branches = {}
    /\ pc = "shell"
    /\ idx = 1
    /\ cmds = <<>>
    /\ allUpdatedFiles = <<>>
    /\ branchCreated = FALSE
    /\ hadErrors = FALSE
    /\ seenRoots = {}
    /\ versionResults = NoVersionResults
    /\ pushResults = NoPushResults
    /\ anomalies = 0

Execute(log) ==
    /\ pc = "shell" /\ cmds = <<>>
    /\ cmds' = log
    /\ UNCHANGED <<disk, paths, request, runs, opts, packages, repos, dirty, branches, pc, idx,
                   allUpdatedFiles, branchCreated, hadErrors, seenRoots, versionResults,
                   pushResults, anomalies>>

ShellBranch == Execute(<<CreateBranch(SanitizeBranchName(request), <<"mono">>)>>)

ShellCommit == Execute(<<Commit(request, <<"mono">>)>>)

ShellStage == Execute(StageFiles(<<request>>, <<"mono">>, "ok").cmds)

ShellPreid == Execute(<<NpmVersionPreid(<<"mono", "app1">>, request)>>)

NextShell == ShellBranch \/ ShellCommit \/ ShellStage \/ ShellPreid

SpecShell == InitShell /\ [][NextShell]_vars

(***************************************************************************)
(* compareVersions on its own: three version strings are compared pairwise.*)
(***************************************************************************)
MaxOrdinal == 1     \* largest prerelease number of a compared version

\* triples that differ from 1.0.0 in the patch, in the minor and in the major number
ComparedTriples == {<<1, 0, 0>>, <<1, 0, 1>>, <<1, 1, 0>>, <<2, 0, 0>>}

ComparedTags == {NoPrerelease, <<"r", "c">>, <<"b", "e", "t", "a">>}

ComparedParsed ==
    {[valid |-> TRUE, major |-> t[1], minor |-> t[2], patch |-> t[3],
      prerelease |-> tag, prereleaseNum |-> num] :
        t \in ComparedTriples, tag \in ComparedTags, num \in {NoNumber} \cup (0..MaxOrdinal)}

\* the canonical spellings, and two other spellings of 1.0.0 and of 1.0.0-rc.1
ComparedVersions ==
    {FormatVersion(p) : p \in {q \in ComparedParsed :
                                  q.prerelease = NoPrerelease => q.prereleaseNum = NoNumber}}
        \cup {<<"v", "1", ".", "0", ".", "0">>,
              <<"1", ".", "0", ".", "0", "-", "r", "c", "-", "1">>}

InitCompare ==
    /\ request \in ComparedVersions \X ComparedVersions \X ComparedVersions
    /\ paths = <<>>
    /\ disk = <<>>
    /\ runs = <<>>
    /\ opts = NoOptions
    /\ packages = <<>>
    /\ repos = {}
    /\ dirty = {}
    /\ branches = {}
    /\ pc = "compare"
    /\ idx = 1
    /\ cmds = <<>>
    /\ allUpdatedFiles = <<>>
    /\ branchCreated = FALSE
    /\ hadErrors = FALSE
    /\ seenRoots = {}
    /\ versionResults = NoVersionResults
    /\ pushResults = NoPushResults
    /\ anomalies = 0

\* every ordered pair of the three versions is compared
Compare ==
    /\ pc = "compare"
    /\ pc' = "compared"
    /\ runs' = [i \in 1..3 |-> [j \in 1..3 |-> CompareVersions(request[i], request[j])]]
    /\ UNCHANGED <<disk, paths, request, opts, packages, repos, dirty, branches, idx, cmds,
                   allUpdatedFiles, branchCreated, hadErrors, seenRoots, versionResults,
                   pushResults, anomalies>>

NextCompare == Compare

SpecCompare == InitCompare /\ [][NextCompare]_vars

(***************************************************************************)
(* The version arithmetic on its own: one of its functions is applied to   *)
(* the given version strings.                                              *)
(***************************************************************************)
\* other spellings of versions: a prefix, a dash before the number, leading zeros
SpelledVersions ==
    {<<"^", "1", ".", "0", ".", "1", "-", "b", "e", "t", "a", "-", "0">>,
     <<"~", "2", ".", "0", ".", "0">>,
     <<"v", "1", ".", "1", ".", "0", "-", "r", "c">>,
     <<"1", ".", "0", "2", ".", "0">>,
     <<"1", ".", "0", ".", "9">>,
     <<"1", ".", "0", ".", "0", "-", "r", "c", ".", "9">>}

\* texts that parseVersion does not match
UnparsedVersions ==
    {<<"1", ".", "0">>,
     <<"l", "a", "t", "e", "s", "t">>,
     <<"1", ".", "0", ".", "0", "-">>,
     <<"1", ".", "0", ".", "0", "-", "r", "c", ".">>,
     <<"1", ".", "0", ".", "0", "-", "1">>,
     <<"v", "v", "1", ".", "0", ".", "0">>}

GivenVersions == ComparedVersions \cup SpelledVersions \cup UnparsedVersions

BumpTypes == {"major", "minor", "patch", "prerelease", "premajor"}

GivenTags == {<<"r", "c">>, <<"b", "e", "t", "a">>}

InitVersion ==
    /\ request \in [old : GivenVersions, new : GivenVersions, type : BumpTypes,
                    tag : GivenTags]
    /\ paths = <<>>
    /\ disk = <<>>
    /\ runs = <<>>
    /\ opts = NoOptions
    /\ packages = <<>>
    /\ repos = {}
    /\ dirty = {}
    /\ branches = {}
    /\ pc = "version"
    /\ idx = 1
    /\ cmds = <<>>
    /\ allUpdatedFiles = <<>>
    /\ branchCreated = FALSE
    /\ hadErrors = FALSE
    /\ seenRoots = {}
    /\ versionResults = NoVersionResults
    /\ pushResults = NoPushResults
    /\ anomalies = 0

\* one function is called and its value kept
Returns(op, value) ==
    /\ pc = "version"
    /\ pc' = op
    /\ runs' = <<value>>
    /\ UNCHANGED <<disk, paths, request, opts, packages, repos, dirty, branches, idx, cmds,
                   allUpdatedFiles, branchCreated, hadErrors, seenRoots, versionResults,
                   pushResults, anomalies>>

Suggest == Returns("next", SuggestNextVersion(request.old, request.type, request.tag))

Classify == Returns("changeKind", GetVersionChangeType(request.old, request.new))

\* formatVersion(parseVersion(v)), for a text v that parseVersion matches
Format ==
    /\ ParseVersion(request.old).valid
    /\ Returns("format", FormatVersion(ParseVersion(request.old)))

\* two patch bumps in a row, and the comparison of the outcome with the first version
PatchedTwice(version, tag, once) ==
    [version |-> SuggestNextVersion(once, "patch", tag),
     order |-> CompareVersions(SuggestNextVersion(once, "patch", tag), version)]

PatchTwice ==
    Returns("patchTwice", PatchedTwice(request.old, request.tag,
                                       SuggestNextVersion(request.old, "patch", request.tag)))

NextVersion == Suggest \/ Classify \/ Format \/ PatchTwice

SpecVersion == InitVersion /\ [][NextVersion]_vars

(***************************************************************************)
(* bumpVersions on its own: the version of every given project is bumped.  *)
(***************************************************************************)
Unparsed == <<"l", "a", "t", "e", "s", "t">>

V100rc0 == V100 \o <<"-", "r", "c", ".", "0">>

\* a project of a version bump: no manifest, an unreadable one, and manifests with no
\* version, with a version that parseVersion does not match, and with versions it matches
BumpManifests ==
    {MissingFile, UnreadableFile} \cup
    {File(Json(Cat(V100, Absent), NoCat, NoCat, NoCat, v), TRUE) :
        v \in {NoVersion, Unparsed, V100, V100rc0}}

RECURSIVE BumpDisksFor(_)
BumpDisksFor(ps) ==
    IF ps = {}
    THEN {<<>>}
    ELSE LET p == CHOOSE q \in ps : TRUE
         IN {(PkgJsonPath(p) :> m) @@ d : m \in BumpManifests, d \in BumpDisksFor(ps \ {p})}

\* the paths are handed to bumpVersions as the projects that had dependency updates
InitBump ==
    /\ paths \in PathLists
    /\ disk \in BumpDisksFor(Range(paths))
    /\ opts \in {[NoOptions EXCEPT !.dryRun = dry, !.bumpVersion = type] :
                    dry \in BOOLEAN, type \in {"patch", "prerelease"}}
    /\ allUpdatedFiles = [k \in 1..Len(paths) |-> PkgJsonPath(paths[k])]
    /\ request = [packageName |-> React, version |-> V100, exact |-> FALSE, noPeer |-> FALSE]
    /\ runs = <<>>
    /\ packages = <<>>
    /\ repos = {}
    /\ dirty = {}
    /\ branches = {}
    /\ pc = "bump"
    /\ idx = 1
    /\ cmds = <<>>
    /\ branchCreated = FALSE
    /\ hadErrors = FALSE
    /\ seenRoots = {}
    /\ versionResults = NoVersionResults
    /\ pushResults = NoPushResults
    /\ anomalies = 0

NextBump == BumpVersion

SpecBump == InitBump /\ [][NextBump]_vars

(***************************************************************************)
(* Reading a result.                                                       *)
(***************************************************************************)
CountIn(list, projectName) == Cardinality({i \in 1..Len(list) : list[i].project = projectName})

InList(list, projectName) == CountIn(list, projectName) > 0

\* the list of a result that holds the project
ClassOf(results, projectName) ==
    {c \in {"updated", "skipped", "notFound", "errors"} :
        InList(results[c], projectName)}

ReasonsOf(results, projectName) ==
    {results.errors[i].reason :
        i \in {j \in 1..Len(results.errors) : results.errors[j].project = projectName}}

\* the category rule, as the specification states it
RuleValue(version, exact, depType) ==
    CASE depType = "peerDependencies" -> <<"^">> \o version
      [] depType # "peerDependencies" /\ exact -> version
      [] OTHER -> <<"^">> \o version

ActiveSet(noPeer) == IF noPeer THEN DepTypeSet \ {"peerDependencies"} ELSE DepTypeSet

\* the active categories of a manifest that contain the requested package
Matched(json) ==
    {t \in ActiveSet(request.noPeer) :
        json.deps[t].present /\ json.deps[t].entries[request.packageName] # Absent}

Satisfied(json, t) ==
    json.deps[t].entries[request.packageName] = RuleValue(request.version, request.exact, t)

Parsed(file) == file.exists /\ file.readable

\* the live write of this manifest is attempted and fails
WriteFails(run, f) ==
    /\ ~run.dryRun
    /\ Parsed(run.before[f])
    /\ \E t \in Matched(run.before[f].json) : ~Satisfied(run.before[f].json, t)
    /\ ~run.before[f].writable

(***************************************************************************)
(* C1: after bumpDependency every targeted project is in exactly one of    *)
(* updated, skipped, notFound, errors, once, and the lengths of the four   *)
(* lists sum to the number of project paths.                               *)
(***************************************************************************)
C1_Partition ==
    \A k \in 1..Len(runs) :
        LET r == runs[k].results
        IN /\ Len(r.updated) + Len(r.skipped) + Len(r.notFound) + Len(r.errors) = Len(paths)
           /\ \A i \in 1..Len(paths) :
                 /\ Cardinality(ClassOf(r, Basename(paths[i]))) = 1
                 /\ CountIn(r.updated, Basename(paths[i])) + CountIn(r.skipped, Basename(paths[i]))
                      + CountIn(r.notFound, Basename(paths[i]))
                      + CountIn(r.errors, Basename(paths[i])) = 1

\* two projects skipped by one call
C1_Witness ==
    \E k \in 1..Len(runs) : Len(runs[k].results.skipped) = 2

(***************************************************************************)
(* C2: after a live update that reports a project as updated, every active *)
(* category that held the package holds the category-rule value; each      *)
(* reported change has "to" equal to that value and "from" equal to the    *)
(* value the manifest held before.                                         *)
(***************************************************************************)
C2_CategoryRule ==
    \A k \in 1..Len(runs) :
        ~runs[k].dryRun =>
            \A i \in 1..Len(runs[k].results.updated) :
                LET e == runs[k].results.updated[i]
                    old == runs[k].before[e.filePath].json
                    new == runs[k].after[e.filePath].json
                IN /\ \A t \in Matched(old) :
                         new.deps[t].entries[request.packageName]
                            = RuleValue(request.version, request.exact, t)
                   /\ \A c \in 1..Len(e.changes) :
                         /\ e.changes[c].to
                              = RuleValue(request.version, request.exact, e.changes[c].type)
                         /\ e.changes[c].from
                              = old.deps[e.changes[c].type].entries[request.packageName]

\* exact is set, and a project is updated in its peer category and in another one
C2_Witness ==
    \E k \in 1..Len(runs) :
        /\ ~runs[k].dryRun
        /\ request.exact
        /\ \E i \in 1..Len(runs[k].results.updated) :
              LET e == runs[k].results.updated[i]
              IN /\ \E c \in 1..Len(e.changes) :
                       e.changes[c].type = "peerDependencies" /\ e.changes[c].to = C100
                 /\ \E c \in 1..Len(e.changes) :
                       e.changes[c].type = "dependencies" /\ e.changes[c].to = V100

(***************************************************************************)
(* C3: a project is skipped exactly when an active category holds the      *)
(* package and every such category already holds its computed string; a    *)
(* skipped project is not written and is not in updated.  As the claim     *)
(* states it, a project with a differing matched category is updated, with *)
(* exactly the differing categories as its changes.                        *)
(***************************************************************************)
SkippedExactly(run, p) ==
    LET f == PkgJsonPath(p)
        json == run.before[f].json
    IN /\ InList(run.results.skipped, Basename(p))
          <=> /\ Parsed(run.before[f])
              /\ Matched(json) # {}
              /\ \A t \in Matched(json) : Satisfied(json, t)
       /\ InList(run.results.skipped, Basename(p))
          => /\ run.after[f] = run.before[f]
             /\ ~InList(run.results.updated, Basename(p))

\* the updated entry of the project lists exactly the differing categories, in order
ChangesExact(run, p) ==
    LET f == PkgJsonPath(p)
        json == run.before[f].json
    IN \A i \in 1..Len(run.results.updated) :
          run.results.updated[i].project = Basename(p) =>
              LET ch == run.results.updated[i].changes
              IN /\ {ch[c].type : c \in 1..Len(ch)}
                      = {t \in Matched(json) : ~Satisfied(json, t)}
                 /\ \A c, d \in 1..Len(ch) : c # d => ch[c].type # ch[d].type

Differs(run, p) ==
    LET f == PkgJsonPath(p)
    IN /\ Parsed(run.before[f])
       /\ \E t \in Matched(run.before[f].json) : ~Satisfied(run.before[f].json, t)

C3_Original ==
    \A k \in 1..Len(runs) : \A i \in 1..Len(paths) :
        /\ SkippedExactly(runs[k], paths[i])
        /\ Differs(runs[k], paths[i]) => InList(runs[k].results.updated, Basename(paths[i]))
        /\ ChangesExact(runs[k], paths[i])

\* amended: a project with a differing matched category is updated unless its live
\* write fails, and then it is in errors
C3_SkippedOrUpdated ==
    \A k \in 1..Len(runs) : \A i \in 1..Len(paths) :
        /\ SkippedExactly(runs[k], paths[i])
        /\ Differs(runs[k], paths[i]) =>
              IF WriteFails(runs[k], PkgJsonPath(paths[i]))
              THEN /\ InList(runs[k].results.errors, Basename(paths[i]))
                   /\ ~InList(runs[k].results.updated, Basename(paths[i]))
              ELSE InList(runs[k].results.updated, Basename(paths[i]))
        /\ ChangesExact(runs[k], paths[i])

\* one call skips a project and updates a partially satisfied one with a single change
C3_Witness ==
    \E k \in 1..Len(runs) :
        /\ Len(runs[k].results.skipped) = 1
        /\ \E i \in 1..Len(runs[k].results.updated) :
              LET e == runs[k].results.updated[i]
              IN /\ Len(e.changes) = 1
                 /\ Cardinality(Matched(runs[k].before[e.filePath].json)) = 2

(***************************************************************************)
(* C4: as the claim states it, a dry run returns the result of the live    *)
(* run from the same manifests, and leaves every manifest unchanged.       *)
(***************************************************************************)
C4_PreviewEqualsLive ==
    \A k, l \in 1..Len(runs) :
        /\ runs[k].dryRun => runs[k].after = runs[k].before
        /\ runs[k].dryRun /\ ~runs[l].dryRun /\ runs[k].before = runs[l].before
              => runs[k].results = runs[l].results

WriteFailure(e) == e.reason = "failed to write package.json"

\* amended: the two results agree but for the projects whose live write fails: the
\* dry run has them in updated, the live run in errors
C4_PreviewEqualsLiveButWriteFailures ==
    \A k, l \in 1..Len(runs) :
        /\ runs[k].dryRun => runs[k].after = runs[k].before
        /\ runs[k].dryRun /\ ~runs[l].dryRun /\ runs[k].before = runs[l].before
              => LET dry == runs[k].results
                     live == runs[l].results
                     fails(e) == ~runs[l].before[e.filePath].writable
                 IN /\ live.skipped = dry.skipped
                    /\ live.notFound = dry.notFound
                    /\ live.updated = SelectSeq(dry.updated, LAMBDA e : ~fails(e))
                    /\ SelectSeq(live.errors, LAMBDA e : ~WriteFailure(e)) = dry.errors
                    /\ \A i \in 1..Len(dry.updated) :
                          fails(dry.updated[i]) =>
                              \E j \in 1..Len(live.errors) :
                                  /\ live.errors[j].project = dry.updated[i].project
                                  /\ WriteFailure(live.errors[j])

\* a dry run and then a live run, both reporting two updated projects
C4_Witness ==
    /\ Len(runs) = 2
    /\ runs[1].dryRun /\ ~runs[2].dryRun
    /\ Len(runs[1].results.updated) = 2
    /\ runs[2].results = runs[1].results
    /\ runs[2].after # runs[2].before

(***************************************************************************)
(* C6: a missing, unparseable or unwritable manifest puts its project in   *)
(* errors with its reason and never in updated; every other project gets   *)
(* the class and the manifest content it gets without the failing project  *)
(* in the list.                                                            *)
(***************************************************************************)
Fails(run, f) == ~run.before[f].exists \/ ~run.before[f].readable \/ WriteFails(run, f)

Without(s, x) == SelectSeq(s, LAMBDA y : y # x)

C7_Frame ==
    \A k \in 1..Len(runs) : \A f \in DOMAIN disk :
        LET old == runs[k].before[f]
            new == runs[k].after[f]
        IN /\ new.exists = old.exists
           /\ new.readable = old.readable
           /\ new.writable = old.writable
           /\ new.json.version = old.json.version
           /\ \A t \in DepTypeSet :
                 /\ new.json.deps[t].present = old.json.deps[t].present
                 /\ \A n \in PackageNames \ {request.packageName} :
                       new.json.deps[t].entries[n] = old.json.deps[t].entries[n]
                 /\ t \notin Matched(old.json) => new.json.deps[t] = old.json.deps[t]
           /\ request.noPeer =>
                 /\ new.json.deps["peerDependencies"] = old.json.deps["peerDependencies"]
                 /\ Parsed(old)
                    /\ (\A t \in DepTypeSet \ {"peerDependencies"} :
                           old.json.deps[t].entries[request.packageName] = Absent)
                    => \E i \in 1..Len(paths) :
                          /\ PkgJsonPath(paths[i]) = f
                          /\ ClassOf(runs[k].results, Basename(paths[i])) = {"notFound"}

\* with noPeer a live run updates a project that also holds the package, at an old
\* range, in its peer category
C7_Witness ==
    \E k \in 1..Len(runs) :
        /\ ~runs[k].dryRun
        /\ request.noPeer
        /\ \E i \in 1..Len(runs[k].results.updated) :
              LET e == runs[k].results.updated[i]
              IN /\ runs[k].before[e.filePath].json.deps["peerDependencies"].entries[React] = OldRange
                 /\ runs[k].after[e.filePath].json.deps["peerDependencies"].entries[React] = OldRange
                 /\ runs[k].after[e.filePath].json.deps["dependencies"].entries[React]
                      # runs[k].before[e.filePath].json.deps["dependencies"].entries[React]

(***************************************************************************)
(* Reading a run of main.                                                  *)
(***************************************************************************)
\* the version-control queries that read the repository and change nothing
Queries == {"rev-parse --git-dir", "rev-parse --show-toplevel", "status --porcelain"}

IsQuery(cmd) == cmd.tool = "git" /\ cmd.command \in Queries

Issued(log, tool, command) ==
    Cardinality({k \in 1..Len(log) : log[k].tool = tool /\ log[k].command = command})

\* some targeted project lies in a repository whose working tree has uncommitted changes
DirtyTargeted ==
    \E i \in 1..Len(paths) : IsGitRepo(paths[i]) /\ GetGitRoot(paths[i]) \in dirty

C8_DirtyAborts ==
    [][(opts.sync /\ DirtyTargeted) =>
          /\ disk' = disk
          /\ runs' = <<>>
          /\ allUpdatedFiles' = <<>>
          /\ pc' \in {"sync", "exited"}
          /\ \A k \in 1..Len(cmds') :
                /\ cmds'[k].tool = "git"
                /\ cmds'[k].command \in Queries \cup {"fetch", "rev-parse --abbrev-ref @{upstream}",
                                                     "pull --rebase"}]_vars

\* a live run that has synced the clean repository of the first project, then found the
\* repository of the second one dirty and exited, with updates pending in the clean one
C8_Witness ==
    /\ pc = "exited" /\ opts.sync /\ ~opts.dryRun
    /\ dirty = {<<"solo">>}
    /\ paths = <<FocusProject, <<"solo">>>>
    /\ seenRoots = {<<"mono">>, <<"solo">>}
    /\ Issued(cmds, "git", "pull --rebase") = 1
    /\ disk[PkgJsonPath(FocusProject)].writable
    /\ opts.commit /\ opts.push

\* C9 as stated: uncommitted changes found by the clean-check is the only failure that
\* stops the whole run; when the run has stopped before the package requests, a targeted
\* repository has uncommitted changes.
C9_OnlyDirtStops ==
    pc = "exited" => DirtyTargeted

\* C10 as stated: over one invocation the branch-create operation is issued at most once.
C10_BranchCreatedOnce ==
    Issued(cmds, "git", "checkout -b") <= 1

\* the repository roots touched by the accumulated change set
TouchedRoots ==
    {GetGitRoot(Dirname(allUpdatedFiles[k])) :
        k \in {j \in 1..Len(allUpdatedFiles) : IsGitRepo(Dirname(allUpdatedFiles[j]))}}

Occurrences(list, x) == Cardinality({k \in 1..Len(list) : list[k] = x})

IsPush(cmd) == cmd.tool = "git" /\ cmd.command \in {"push", "push --set-upstream origin"}

PushesAt(root) == Cardinality({k \in 1..Len(cmds) : IsPush(cmds[k]) /\ cmds[k].cwd = root})

BehindCheck(cwd) == Git("rev-list --count HEAD..@{upstream}", cwd, <<>>)

\* C11: when push is requested, each repository root touched by the accumulated change
\* set is handled once and ends in exactly one of pushed, skipped or failed; a push
\* command is issued for a root only directly after the behind-upstream check of that
\* root (its fetch, and its count of upstream commits unless the fetch failed), and a
\* root reported behind is skipped and never pushed.
C11_PushOncePerRoot ==
    opts.push =>
        /\ \A r \in repos :
              LET name == Basename(r)
                  n == Occurrences(pushResults.success, name)
                        + Occurrences(pushResults.skipped, name)
                        + Occurrences(pushResults.failed, name)
              IN /\ n <= 1
                 /\ r \notin TouchedRoots => n = 0
                 /\ (pc = "done" /\ r \in TouchedRoots) => n = 1
                 /\ Occurrences(pushResults.skipped, name) = 1 => PushesAt(r) = 0
                 /\ Occurrences(pushResults.failed, name) = 1 => PushesAt(r) = 1
                 /\ Occurrences(pushResults.success, name) = 1 =>
                       PushesAt(r) = (IF opts.dryRun THEN 0 ELSE 1)
                 /\ n = 0 => PushesAt(r) = 0
        /\ \A k \in 1..Len(cmds) :
              IsPush(cmds[k]) =>
                 /\ k > 3
                 /\ cmds[k - 2] = GetCurrentBranchCmd(cmds[k].cwd)
                 /\ \/ cmds[k - 3] = FetchRemote(cmds[k].cwd)
                    \/ /\ k > 4
                       /\ cmds[k - 3] = BehindCheck(cmds[k].cwd)
                       /\ cmds[k - 4] = FetchRemote(cmds[k].cwd)

\* a finished live run that pushed the first root and skipped the second, which was behind
C11_Witness ==
    /\ pc = "done" /\ opts.push /\ ~opts.dryRun
    /\ TouchedRoots = {<<"mono">>, <<"solo">>}
    /\ pushResults.success = <<"mono">>
    /\ pushResults.skipped = <<"solo">>
    /\ PushesAt(<<"mono">>) = 1
    /\ Len(allUpdatedFiles) >= 3

\* the repository roots of the targeted projects
TargetRoots == {GetGitRoot(paths[i]) : i \in {j \in 1..Len(paths) : IsGitRepo(paths[j])}}

At(k, cmd) == k >= 1 /\ k <= Len(cmds) /\ cmds[k] = cmd

CleanChecks(root) == {k \in 1..Len(cmds) : cmds[k] = HasUncommittedChangesCmd(root)}

\* the sync of root, whose clean-check is cmds[k], ran to its end: in a live run the
\* fetch and the upstream query follow the clean-check; in a preview run nothing follows
SyncStepAt(root, k) ==
    IF opts.dryRun
    THEN ~At(k + 1, FetchRemote(root))
    ELSE At(k + 1, FetchRemote(root)) /\ At(k + 2, HasUpstreamCmd(root))

\* a rebase-pull is issued only as the last command of a sync step, after the upstream query
PullsInSyncSteps ==
    \A k \in 1..Len(cmds) :
        cmds[k].command = "pull --rebase" =>
            /\ At(k - 1, HasUpstreamCmd(cmds[k].cwd))
            /\ At(k - 2, FetchRemote(cmds[k].cwd))
            /\ At(k - 3, HasUncommittedChangesCmd(cmds[k].cwd))

\* sync requested: one sync step per targeted root, all of them before the first update
SyncOncePerRoot ==
    opts.sync =>
        /\ \A r \in repos : Cardinality(CleanChecks(r)) <= 1
        /\ \A r \in repos \ TargetRoots : CleanChecks(r) = {}
        /\ PullsInSyncSteps
        /\ \A r \in repos : Issued(SelectSeq(cmds, LAMBDA c : c.cwd = r), "git", "pull --rebase") <= 1
        /\ pc = "sync" => runs = <<>> /\ allUpdatedFiles = <<>>
        /\ pc \notin {"sync", "exited"} =>
              \A r \in TargetRoots :
                  /\ Cardinality(CleanChecks(r)) = 1
                  /\ \A k \in CleanChecks(r) : SyncStepAt(r, k)

\* C12 as stated: one sync step per distinct root before the first manifest is updated,
\* and without sync no clean-check, no fetch and no rebase-pull is issued at all.
C12_Original ==
    /\ SyncOncePerRoot
    /\ ~opts.sync =>
          /\ Issued(cmds, "git", "status --porcelain") = 0
          /\ Issued(cmds, "git", "fetch") = 0
          /\ Issued(cmds, "git", "pull --rebase") = 0

\* C12: when sync is requested, the synchronization step (the clean-check, and in a live
\* run the fetch, then the rebase-pull after the upstream query) runs exactly once per
\* distinct repository root of the targeted projects, and every such step completes
\* before the first manifest is updated; when sync is not requested, no clean-check and
\* no rebase-pull is issued, and a fetch is issued only by the behind-upstream check of
\* the push step.
C12_SyncOncePerRoot ==
    /\ SyncOncePerRoot
    /\ ~opts.sync =>
          /\ Issued(cmds, "git", "status --porcelain") = 0
          /\ Issued(cmds, "git", "pull --rebase") = 0
          /\ \A k \in 1..Len(cmds) :
                cmds[k].command = "fetch" =>
                    /\ opts.push /\ pc \in {"push", "done"}
                    /\ \E i \in 1..Len(paths) : At(k - 1, GetGitRootCmd(paths[i]))

\* a finished live run with sync over two projects that share a root: one sync step,
\* with its pull, and then updates of both projects
C12_Witness ==
    /\ pc = "done" /\ opts.sync /\ ~opts.dryRun
    /\ paths = <<FocusProject, <<"mono", "app2">>>>
    /\ Cardinality(CleanChecks(<<"mono">>)) = 1
    /\ Issued(cmds, "git", "pull --rebase") = 1
    /\ Len(allUpdatedFiles) >= 2

\* the commands issued by the step
NewCmds == SubSeq(cmds', Len(cmds) + 1, Len(cmds'))

\* the paths staged by the commands of log, in order
Staged(log) ==
    LET adds == SelectSeq(log, LAMBDA c : c.tool = "git" /\ c.command = "add")
    IN [k \in 1..Len(adds) |-> adds[k].arg]

\* list without the later occurrences of its elements
RECURSIVE FirstOccurrences(_)
FirstOccurrences(list) ==
    IF Len(list) = 0 THEN <<>>
    ELSE <<list[1]>> \o FirstOccurrences(SelectSeq(Tail(list), LAMBDA x : x # list[1]))

\* the file that the path rel names in the directory cwd
RECURSIVE Resolve(_, _)
Resolve(cwd, rel) ==
    IF Len(rel) > 0 /\ rel[1] = ".." /\ Len(cwd) > 0
    THEN Resolve(Dirname(cwd), Tail(rel))
    ELSE cwd \o rel

\* the paths staged name the first files, in order, from the root of the first file
StagesPrefix(staged, files) ==
    /\ Len(staged) <= Len(files)
    /\ \A k \in 1..Len(staged) : Resolve(GetGitRoot(Dirname(files[1])), staged[k]) = files[k]

AllUnderFirstRoot(files) ==
    \A k \in 1..Len(files) : IsPrefix(GetGitRoot(Dirname(files[1])), files[k])

\* the step issues one commit step over files: it looks for the repository of the first
\* file, stages files in order and commits once, last; it stops early only in a preview
\* run, outside a repository, or when one of its commands fails
CommitStepOver(files) ==
    LET new == NewCmds
        inRepo == IsGitRepo(Dirname(files[1]))
        commits == Issued(new, "git", "commit -m")
    IN /\ Len(new) >= 1 /\ new[1] = IsGitRepoCmd(Dirname(files[1]))
       /\ commits <= 1
       /\ (opts.dryRun \/ ~inRepo) => commits = 0 /\ Staged(new) = <<>>
       /\ (~opts.dryRun /\ inRepo) =>
             /\ StagesPrefix(Staged(new), files)
             /\ commits = 1 =>
                   /\ new[Len(new)].command = "commit -m"
                   /\ new[Len(new)].cwd = GetGitRoot(Dirname(files[1]))
                   /\ Len(Staged(new)) = Len(files)
             /\ (anomalies' = anomalies /\ AllUnderFirstRoot(files)) => commits = 1

\* the manifest paths changed by the request that the step has processed
ChangedByStep ==
    LET updated == runs'[Len(runs')].results.updated
    IN [k \in 1..Len(updated) |-> updated[k].filePath]

C13_WitnessSingle ==
    /\ pc = "done" /\ opts.commit /\ opts.singleCommit /\ ~opts.dryRun
    /\ opts.bumpVersion = NoBump
    /\ Len(allUpdatedFiles) = 2 /\ allUpdatedFiles[1] = allUpdatedFiles[2]
    /\ Issued(cmds, "git", "commit -m") = 1
    /\ Len(Staged(cmds)) = 1

\* the targeted projects whose manifest a package request of this run has changed
ChangedProjects ==
    {p \in Range(paths) :
        \E i \in 1..Len(runs) : \E k \in 1..Len(runs[i].results.updated) :
            runs[i].results.updated[k].filePath = PkgJsonPath(p)}

\* the names of the projects for which the version bump was invoked, in order
Bumped ==
    [k \in 1..Len(versionResults.updated) |-> versionResults.updated[k].projectName]
    \o [k \in 1..Len(versionResults.errors) |-> versionResults.errors[k].projectName]

NpmAt(dir) == Cardinality({k \in 1..Len(cmds) : cmds[k].tool = "npm" /\ cmds[k].cwd = dir})

C14_WitnessUnchanged ==
    /\ pc = "done" /\ opts.bumpVersion # NoBump
    /\ Len(paths) = 2 /\ paths[2] \notin ChangedProjects
    /\ Bumped = <<Basename(FocusProject)>>

\* a package name of lowercase letters and a version of three numbers separated by dots
WellFormed(pkg) ==
    /\ Len(pkg.name) > 0
    /\ \A i \in 1..Len(pkg.name) : pkg.name[i] \in LowerCase
    /\ \E i, j \in 1..Len(pkg.version) :
          /\ 1 < i /\ i + 1 < j /\ j < Len(pkg.version)
          /\ \A k \in 1..Len(pkg.version) :
                IF k \in {i, j} THEN pkg.version[k] = "." ELSE pkg.version[k] \in Digits

\* the package requests that main has gone through
Processed ==
    CASE pc \in {"sync", "exited"} -> <<>>
      [] pc = "packages" -> SubSeq(packages, 1, idx - 1)
      [] OTHER -> packages

\* the valid requests processed so far have been applied, in order and to every project;
\* a malformed one has set the error flag
ValidApplied ==
    LET valid == SelectSeq(Processed, WellFormed)
    IN /\ Len(runs) = Len(valid)
       /\ \A i \in 1..Len(runs) :
             /\ runs[i].packageName = valid[i].name
             /\ runs[i].version = valid[i].version
             /\ \A p \in Range(paths) :
                   CountIn(runs[i].results.updated, Basename(p))
                     + CountIn(runs[i].results.skipped, Basename(p))
                     + CountIn(runs[i].results.notFound, Basename(p))
                     + CountIn(runs[i].results.errors, Basename(p)) = 1
       /\ Len(valid) < Len(Processed) => hadErrors

\* the step that processes a malformed request finds validation errors, reads and writes
\* no manifest, issues no command, and goes on to the next request
MalformedRejected ==
    (pc = "packages" /\ idx <= Len(packages) /\ ~WellFormed(packages[idx])) =>
        /\ Len(ValidateOptions([packageName |-> packages[idx].name,
                                version |-> packages[idx].version,
                                paths |-> paths]).errors) > 0
        /\ disk' = disk /\ runs' = runs /\ cmds' = cmds
        /\ allUpdatedFiles' = allUpdatedFiles
        /\ hadErrors'
        /\ pc' = "packages" /\ idx' = idx + 1

\* C15: a package request with a malformed package name or a malformed version string is
\* rejected with a list of validation errors before any manifest is read or written for
\* it, and every other, valid request of the batch is still applied to all projects.
C15_MalformedRejected ==
    [][MalformedRejected /\ ValidApplied']_vars

\* a finished run of three requests whose second has a malformed version: the first and
\* the third were applied, and changed manifests
C15_Witness ==
    /\ pc = "done" /\ Len(packages) = 3 /\ ~WellFormed(packages[2])
    /\ Len(runs) = 2 /\ hadErrors
    /\ runs[2].packageName = Lodash
    /\ Len(runs[1].results.updated) > 0 /\ Len(runs[2].results.updated) > 0

\* a finished run of two requests whose second has a malformed name
C15_WitnessName ==
    /\ pc = "done" /\ Len(packages) = 2 /\ packages[2].name = BadName
    /\ Len(runs) = 1 /\ hadErrors

\* the place of the project called name in the list of project paths
PlaceOf(name) == CHOOSE i \in 1..Len(paths) : Basename(paths[i]) = name

\* the entries of list name projects in the order of the project paths
InPathOrder(list) ==
    \A k1, k2 \in 1..Len(list) : k1 < k2 => PlaceOf(list[k1].project) < PlaceOf(list[k2].project)

RECURSIVE IsSubsequence(_, _)
IsSubsequence(a, b) ==
    IF Len(a) = 0 THEN TRUE
    ELSE IF Len(b) = 0 THEN FALSE
    ELSE IF a[1] = b[1] THEN IsSubsequence(Tail(a), Tail(b))
    ELSE IsSubsequence(a, Tail(b))

\* the messages of the commits issued so far, in order
CommitMessages ==
    LET commits == SelectSeq(cmds, LAMBDA c : c.tool = "git" /\ c.command = "commit -m")
    IN [k \in 1..Len(commits) |-> commits[k].arg]

\* the names of the requests that changed a manifest, in the order of the runs
UpdatingRequests ==
    LET updating == SelectSeq(runs, LAMBDA run : Len(run.results.updated) > 0)
    IN [k \in 1..Len(updating) |-> updating[k].packageName]

\* C16: within each list of a result the entries appear in the order of the input
\* project-path list, and the package requests are processed, and their results and
\* their commits produced, in the order of the input package list.
C16_InputOrder ==
    /\ \A i \in 1..Len(runs) :
          /\ InPathOrder(runs[i].results.updated)
          /\ InPathOrder(runs[i].results.skipped)
          /\ InPathOrder(runs[i].results.notFound)
          /\ InPathOrder(runs[i].results.errors)
    /\ ValidApplied
    /\ (opts.commit /\ ~opts.singleCommit /\ opts.bumpVersion = NoBump) =>
          /\ IsSubsequence(CommitMessages,
                           [k \in 1..Len(UpdatingRequests) |->
                               <<"Update ">> \o UpdatingRequests[k] \o <<" dependency">>])
          /\ (~opts.dryRun /\ anomalies = 0 /\ Len(paths) = 1) =>
                Len(CommitMessages) = Len(UpdatingRequests)

\* a finished live run of two updating requests over two projects: the second request
\* changed both projects, and each request was committed
C16_Witness ==
    /\ pc = "done" /\ opts.commit /\ ~opts.singleCommit /\ ~opts.dryRun
    /\ opts.bumpVersion = NoBump
    /\ Len(paths) = 2 /\ Len(runs) = 2
    /\ Len(runs[2].results.updated) = 2
    /\ runs[2].results.updated[1].project = Basename(paths[1])
    /\ UpdatingRequests = <<React, Lodash>>
    /\ Len(CommitMessages) = 2

\* the names joined with ", "
RECURSIVE JoinNames(_)
JoinNames(names) ==
    IF Len(names) = 0 THEN <<>>
    ELSE IF Len(names) = 1 THEN names[1]
    ELSE names[1] \o <<", ">> \o JoinNames(Tail(names))

\* the default message of a dependency commit that covers the packages called names
ExpectedMessage(names) ==
    IF Len(names) = 1
    THEN <<"Update ">> \o names[1] \o <<" dependency">>
    ELSE <<"Update ">> \o JoinNames(names) \o <<" dependencies">>

RequestedNames == [k \in 1..Len(packages) |-> packages[k].name]

IsBumpMessage(message) == Len(message) > 0 /\ message[1] = "Bump versions ("

\* C17 as stated: without a custom message, the message of a dependency commit is
\* "Update <pkg> dependency" when the commit covers one package and
\* "Update <pkg1>, <pkg2> dependencies" when it covers several, the combined
\* single-commit included; with a custom message every commit uses the custom message.
C17_CommitMessages ==
    \A k \in 1..Len(CommitMessages) :
        LET message == CommitMessages[k]
        IN IF opts.message # NoMessage THEN message = opts.message
           ELSE IF IsBumpMessage(message) THEN TRUE
           ELSE IF opts.singleCommit
           THEN message \in {ExpectedMessage(UpdatingRequests), ExpectedMessage(RequestedNames)}
           ELSE \E i \in 1..Len(UpdatingRequests) :
                   message = ExpectedMessage(<<UpdatingRequests[i]>>)

\* inside double quotes: every backslash escapes the character after it, and no double
\* quote, dollar sign or backtick stands unescaped
RECURSIVE Inert(_)
Inert(arg) ==
    IF Len(arg) = 0 THEN TRUE
    ELSE IF arg[1] = "\\" THEN Len(arg) >= 2 /\ Inert(SubSeq(arg, 3, Len(arg)))
    ELSE arg[1] \notin {"\"", "$", GraveAccent} /\ Inert(Tail(arg))

\* C18 as stated: every user-supplied string substituted into an external command line
\* is shell-escaped first: the substituted argument contains no unescaped double quote,
\* backslash, dollar sign or backtick.
C18_ArgumentsEscaped ==
    \A k \in 1..Len(cmds) : Inert(cmds[k].arg)

Compared == pc = "compared"

ParsedAt(i) == ParseVersion(request[i])

\* C19 as stated: compare is a total order on parseable version strings: compare(a, b)
\* is less exactly when compare(b, a) is greater, compare(a, b) is equal exactly when a
\* and b parse to the same version, and compare is transitive.
C19_TotalOrder ==
    Compared =>
        /\ \A i, j \in 1..3 : runs[i][j] = -1 <=> runs[j][i] = 1
        /\ \A i, j \in 1..3 : runs[i][j] = 0 <=> ParsedAt(i) = ParsedAt(j)
        /\ \A i, j, k \in 1..3 : runs[i][j] = -1 /\ runs[j][k] = -1 => runs[i][k] = -1

SameTriple(a, b) == a.major = b.major /\ a.minor = b.minor /\ a.patch = b.patch

\* the first of two compared versions is reported lower and the second higher
Below(i, j) == runs[i][j] = -1 /\ runs[j][i] = 1

\* C20 as stated: compare decides by major, then minor, then patch; for equal triples a
\* version without prerelease is greater than any version with one; for two prereleases
\* of one triple the tag decides lexicographically; for one tag the ordinal decides
\* numerically, and a missing ordinal is lower than any ordinal, 0 included.
C20_ComparisonOrder ==
    Compared =>
        \A i, j \in 1..3 :
            LET a == ParsedAt(i)
                b == ParsedAt(j)
                tagged == a.prerelease # NoPrerelease /\ b.prerelease # NoPrerelease
            IN /\ a.major < b.major => Below(i, j)
               /\ a.major = b.major /\ a.minor < b.minor => Below(i, j)
               /\ a.major = b.major /\ a.minor = b.minor /\ a.patch < b.patch => Below(i, j)
               /\ SameTriple(a, b) /\ a.prerelease # NoPrerelease /\ b.prerelease = NoPrerelease
                      => Below(i, j)
               /\ SameTriple(a, b) /\ tagged /\ StringLess(a.prerelease, b.prerelease)
                      => Below(i, j)
               /\ SameTriple(a, b) /\ tagged /\ a.prerelease = b.prerelease
                      /\ a.prereleaseNum # NoNumber /\ a.prereleaseNum < b.prereleaseNum
                      => Below(i, j)
               /\ SameTriple(a, b) /\ tagged /\ a.prerelease = b.prerelease
                      /\ a.prereleaseNum = NoNumber /\ b.prereleaseNum # NoNumber
                      => Below(i, j)

Old == ParseVersion(request.old)

New == ParseVersion(request.new)

Release(major, minor, patch) ==
    [valid |-> TRUE, major |-> major, minor |-> minor, patch |-> patch,
     prerelease |-> NoPrerelease, prereleaseNum |-> NoNumber]

Prerelease(major, minor, patch, tag, num) ==
    [valid |-> TRUE, major |-> major, minor |-> minor, patch |-> patch,
     prerelease |-> tag, prereleaseNum |-> num]

\* the version that the rule of next names, for a parsed current version
Reference(cur, type, tag) ==
    CASE type = "major" -> Release(cur.major + 1, 0, 0)
      [] type = "minor" -> Release(cur.major, cur.minor + 1, 0)
      [] type = "patch" ->
            IF cur.prerelease # NoPrerelease
            THEN Release(cur.major, cur.minor, cur.patch)
            ELSE Release(cur.major, cur.minor, cur.patch + 1)
      [] type = "prerelease" ->
            IF cur.prerelease = tag /\ cur.prereleaseNum # NoNumber
            THEN Prerelease(cur.major, cur.minor, cur.patch, tag, cur.prereleaseNum + 1)
            ELSE Prerelease(cur.major, cur.minor, cur.patch + 1, tag, 0)
      [] OTHER -> NullVersion

Canonical(parsed) == IF parsed.valid THEN FormatVersion(parsed) ELSE NullString

\* C21: next(current, bumpType, prereleaseTag) is the version of the reference rule,
\* in its canonical spelling, for every parseable current, and null for every other bump
\* type and for every unparseable current.
C21_NextIsReference ==
    pc = "next" =>
        /\ runs[1] = (IF Old.valid
                      THEN Canonical(Reference(Old, request.type, request.tag))
                      ELSE NullString)
        /\ runs[1] = NullString <=> (~Old.valid \/ request.type = "premajor")
        /\ runs[1] # NullString =>
              ParseVersion(runs[1]) = Reference(Old, request.type, request.tag)

\* a patch bump of a prerelease has returned the release of the same triple
C21_Witness ==
    /\ pc = "next" /\ request.type = "patch"
    /\ Old.valid /\ Old.prerelease # NoPrerelease
    /\ ParseVersion(runs[1]) = Release(Old.major, Old.minor, Old.patch)

Rises(old, new) ==
    \/ new.major > old.major
    \/ new.major = old.major /\ new.minor > old.minor
    \/ new.major = old.major /\ new.minor = old.minor /\ new.patch > old.patch

\* C22: changeKind(old, new) is prerelease whenever new carries a prerelease tag,
\* whatever the numbers of old and new; otherwise it is major when new.major > old.major,
\* minor when the majors are equal and new.minor > old.minor, patch when major and minor
\* are equal and new.patch > old.patch.
C22_ChangeKind ==
    pc = "changeKind" /\ Old.valid /\ New.valid =>
        IF New.prerelease # NoPrerelease THEN runs[1] = "prerelease"
        ELSE /\ New.major > Old.major => runs[1] = "major"
             /\ New.major = Old.major /\ New.minor > Old.minor => runs[1] = "minor"
             /\ New.major = Old.major /\ New.minor = Old.minor /\ New.patch > Old.patch
                    => runs[1] = "patch"

\* a downgrade to a prerelease has been classified as prerelease
C22_Witness ==
    /\ pc = "changeKind" /\ Old.valid /\ New.valid
    /\ New.prerelease # NoPrerelease /\ New.major < Old.major
    /\ runs[1] = "prerelease"

\* C23 as stated: when new has no prerelease and is not greater than old in major, minor
\* or patch, changeKind is patch only if old carries a prerelease and both have the same
\* triple, and unknown in every other case (downgrades and equal versions).
C23_DowngradeUnknown ==
    pc = "changeKind" /\ Old.valid /\ New.valid
            /\ New.prerelease = NoPrerelease /\ ~Rises(Old, New) =>
        runs[1] = (IF Old.prerelease # NoPrerelease /\ SameTriple(Old, New)
                   THEN "patch" ELSE "unknown")

\* C24: for every version string v that parse accepts (with or without a leading v, ^
\* or ~, a prerelease tag, a number, a dot or a dash before the number),
\* parse(format(parse(v))) equals parse(v).
C24_RoundTrip ==
    pc = "format" => ParseVersion(runs[1]) = Old

\* a text with a prefix and a dash before its number has been formatted to another text
C24_Witness ==
    /\ pc = "format"
    /\ request.old[1] = "^" /\ Old.prereleaseNum # NoNumber
    /\ runs[1] # request.old
    /\ ParseVersion(runs[1]) = Old

\* C25: for every release version v, next(next(v, "patch", _), "patch", _) compares
\* strictly greater than v, for any prerelease tag given.
C25_PatchTwiceGreater ==
    pc = "patchTwice" /\ Old.valid /\ Old.prerelease = NoPrerelease => runs[1].order = 1

\* two patch bumps of a release have given the release two patch numbers higher
C25_Witness ==
    /\ pc = "patchTwice" /\ Old.valid /\ Old.prerelease = NoPrerelease
    /\ ParseVersion(runs[1].version) = Release(Old.major, Old.minor, Old.patch + 2)
    /\ runs[1].order = 1

\* the manifest of a project cannot be bumped: it is absent or unreadable, has no
\* version, or has a version from which no next version is computed
Unbumpable(file) ==
    \/ ~file.exists
    \/ ~file.readable
    \/ file.json.version = NoVersion
    \/ SuggestNextVersion(file.json.version, opts.bumpVersion, DefaultPreid) = NullString

BumpedNames == [k \in 1..(idx - 1) |-> Basename(UpdatedProjectPaths[k])]

NamesOf(list) == [k \in 1..Len(list) |-> list[k].projectName]

ErroredAs(projectName, reasons) ==
    \E k \in 1..Len(versionResults.errors) :
        /\ versionResults.errors[k].projectName = projectName
        /\ versionResults.errors[k].error \in reasons

\* C26: a version-bump batch places every targeted project in exactly one of updated
\* and errored, in input order; a project whose manifest is absent, has no version, has
\* no computable next version, or whose npm version fails is recorded in errored with a
\* reason, and every project after it is still processed.
C26_EveryProjectOnce ==
    pc = "bump" =>
        /\ Len(versionResults.updated) + Len(versionResults.errors) = idx - 1
        /\ \A k \in 1..(idx - 1) :
              (\E u \in 1..Len(versionResults.updated) :
                   versionResults.updated[u].projectName = BumpedNames[k])
              # (\E e \in 1..Len(versionResults.errors) :
                     versionResults.errors[e].projectName = BumpedNames[k])
        /\ IsSubsequence(NamesOf(versionResults.updated), BumpedNames)
        /\ IsSubsequence(NamesOf(versionResults.errors), BumpedNames)
        /\ \A u \in 1..Len(versionResults.updated) :
              LET r == versionResults.updated[u]
              IN /\ disk[r.filePath].exists /\ disk[r.filePath].readable
                 /\ r.oldVersion # NoVersion
                 /\ SuggestNextVersion(r.oldVersion, opts.bumpVersion, DefaultPreid) # NullString
        /\ \A k \in 1..(idx - 1) :
              LET file == disk[PkgJsonPath(UpdatedProjectPaths[k])]
                  name == BumpedNames[k]
              IN ErroredAs(name, {"package.json not found", "err.message",
                                  "No version field in package.json",
                                  "Could not calculate version"}) =>
                    /\ ~file.exists => ErroredAs(name, {"package.json not found"})
                    /\ file.exists /\ file.readable /\ file.json.version = NoVersion
                           => ErroredAs(name, {"No version field in package.json"})
                    /\ file.exists /\ file.readable /\ file.json.version # NoVersion
                           /\ Unbumpable(file)
                           => ErroredAs(name, {"Could not calculate version"})
                    /\ ~Unbumpable(file) =>
                           /\ ~opts.dryRun
                           /\ ErroredAs(name, {"err.message"})
                           /\ \E c \in 1..Len(cmds) :
                                 cmds[c].tool = "npm" /\ cmds[c].cwd = UpdatedProjectPaths[k]

\* the first project has failed and the second one has been bumped after it
C26_Witness ==
    /\ pc = "bump" /\ idx = 3
    /\ Len(versionResults.errors) = 1 /\ Len(versionResults.updated) = 1
    /\ versionResults.errors[1].projectName = BumpedNames[1]
    /\ versionResults.updated[1].projectName = BumpedNames[2]

NewlyBumped ==
    SubSeq(versionResults'.updated, Len(versionResults.updated) + 1,
           Len(versionResults'.updated))

\* C27: a successful live bumpProject reports as new version the version that the
\* manifest holds after npm version has run, also when it differs from the prediction
\* of next; a preview reports the prediction of next and leaves the manifest unchanged.
C27_ReportsManifestVersion ==
    [][pc = "bump" =>
          \A k \in 1..Len(NewlyBumped) :
              LET r == NewlyBumped[k]
              IN /\ r.oldVersion = disk[r.filePath].json.version
                 /\ IF opts.dryRun
                    THEN /\ disk' = disk
                         /\ r.newVersion =
                               SuggestNextVersion(r.oldVersion, opts.bumpVersion, DefaultPreid)
                    ELSE r.newVersion = disk'[r.filePath].json.version]_vars

\* npm version has written a version other than the predicted one, and it is reported
C27_Witness ==
    /\ pc = "bump" /\ ~opts.dryRun
    /\ \E u \in 1..Len(versionResults.updated) :
          LET r == versionResults.updated[u]
          IN /\ r.newVersion = NpmOwnVersion
             /\ r.newVersion # SuggestNextVersion(r.oldVersion, opts.bumpVersion, DefaultPreid)
             /\ disk[r.filePath].json.version = NpmOwnVersion

IsAdd(cmd) == cmd.tool = "git" /\ cmd.command = "add"

CommitsAt(root) ==
    Cardinality({k \in 1..Len(cmds) :
                    cmds[k].tool = "git" /\ cmds[k].command = "commit -m" /\ cmds[k].cwd = root})

\* C28 as stated: when the changed manifests of one stage/commit step lie in more than
\* one repository, each path is staged and committed in the repository that contains it:
\* no path is staged in a repository whose working tree does not contain it, and no
\* repository with a changed manifest is left without its commit.
C28_StagedInOwnRepository ==
    /\ \A k \in 1..Len(cmds) :
          LET file == Resolve(cmds[k].cwd, cmds[k].arg)
          IN IsAdd(cmds[k]) /\ IsGitRepo(Dirname(file)) =>
                 GetGitRoot(Dirname(file)) = cmds[k].cwd
    /\ (pc = "done" /\ opts.commit /\ ~opts.dryRun /\ anomalies = 0) =>
          \A root \in TouchedRoots : CommitsAt(root) >= 1

ChangedManifests == {PkgJsonPath(p) : p \in ChangedProjects}

ChangedRoots == {GetGitRoot(p) : p \in {q \in ChangedProjects : IsGitRepo(q)}}

Repeated(k) == k + 1 <= Len(runs) /\ ~runs[k].dryRun /\ ~runs[k + 1].dryRun

\* C30: applying the same package update request a second time in live mode to the same
\* projects leaves every manifest unchanged and returns an empty updated list: every
\* project the first run classified as updated or skipped is skipped by the second run.
C30_SecondRunSkips ==
    \A k \in 1..Len(runs) :
        Repeated(k) =>
            /\ runs[k + 1].before = runs[k].after
            /\ runs[k + 1].after = runs[k + 1].before
            /\ runs[k + 1].results.updated = <<>>
            /\ \A i \in 1..Len(paths) :
                  (\/ InList(runs[k].results.updated, Basename(paths[i]))
                   \/ InList(runs[k].results.skipped, Basename(paths[i])))
                      => /\ InList(runs[k + 1].results.skipped, Basename(paths[i]))
                         /\ ~InList(runs[k + 1].results.notFound, Basename(paths[i]))
                         /\ ~InList(runs[k + 1].results.errors, Basename(paths[i]))

\* a first live run has updated a project and the second one has skipped it
C30_Witness ==
    /\ Repeated(1)
    /\ Len(runs[1].results.updated) > 0
    /\ runs[1].after # runs[1].before
    /\ \A u \in 1..Len(runs[1].results.updated) :
          InList(runs[2].results.skipped, runs[1].results.updated[u].project)

====
